---- MODULE Spec2Model ----
(***************************************************************************)
(* Model of the resolution-and-normalization pipeline of DoubanTimeline:   *)
(* ParseDoubanURL, requestAPI, FetchDoubanMediaInfo (douban_module) and    *)
(* fetchRating, downloadImage, addMovieHandler, indexHandler,              *)
(* groupMoviesByYearMonth, formatRating, toggleMovieFavoriteHandler and    *)
(* fetchJavInfoFromPython (main.go).                                       *)
(*                                                                         *)
(* Go strings are modelled as sequences of one-character strings, so that  *)
(* prefix tests, substring search, replacement and trimming are computed   *)
(* the way the library computes them.                                      *)
(***************************************************************************)
EXTENDS Integers, Sequences, FiniteSets, TLC

VARIABLES
    externalURL, subjectType, parsed,      \* ParseDoubanURL: arguments and result
    api,                                   \* requestAPI: one activation per caller
    mi,                                    \* FetchDoubanMediaInfo: one activation per caller
    fr,                                    \* fetchRating: one activation per caller
    dl,                                    \* downloadImage: one activation per caller
    links, inodes,                         \* the image directory: names and file contents
    db,                                    \* the movies table
    req,                                   \* addMovieHandler: one activation per request
    jav,                                   \* fetchJavInfoFromPython: the activation
    view                                   \* the handlers of the stored list: the activation

parseVars == <<externalURL, subjectType, parsed>>
fetchVars == <<api, mi>>
fileVars  == <<links, inodes>>
vars == <<externalURL, subjectType, parsed, api, mi, fr, dl, links, inodes, db, req, jav, view>>

\* the callers (requests) that can have an activation of a function
Reqs == {1, 2}

\* the caller used where calls are made one after the other
Solo == CHOOSE r \in Reqs : \A q \in Reqs : r <= q

----------------------------------------------------------------------------
(* Bounds of the enumerated inputs *)
MaxIdLen == 2          \* longest identifier text in an enumerated URL
MaxTitleLen == 3       \* longest primary title of an enumerated game document

----------------------------------------------------------------------------
(* strings package, on sequences of characters *)

Digits == {"0", "1", "2", "3", "4", "5", "6", "7", "8", "9"}

\* s[from..to], empty when from > to
Sub(s, from, to) == IF from > to THEN <<>> ELSE SubSeq(s, from, to)

\* strings.HasPrefix
HasPrefix(s, p) == Len(p) <= Len(s) /\ Sub(s, 1, Len(p)) = p

\* s with its first n characters dropped
Drop(s, n) == Sub(s, n + 1, Len(s))

\* strings.Index: 1-based position of the first occurrence of sub in s, 0 when
\* there is none (the empty string occurs at position 1)
Index(s, sub) ==
    LET starts == {i \in 1..(Len(s) + 1) :
                      /\ i + Len(sub) - 1 <= Len(s)
                      /\ Sub(s, i, i + Len(sub) - 1) = sub}
    IN IF starts = {} THEN 0 ELSE CHOOSE i \in starts : \A j \in starts : i <= j

\* strings.Contains
Contains(s, sub) == Index(s, sub) > 0

\* number of leading characters of s that belong to set cs
RECURSIVE RunLen(_, _)
RunLen(s, cs) ==
    IF s = <<>> \/ Head(s) \notin cs THEN 0 ELSE 1 + RunLen(Tail(s), cs)

----------------------------------------------------------------------------
(* Literals *)

sHttps   == <<"h","t","t","p","s",":","/","/">>
sHttp    == <<"h","t","t","p",":","/","/">>
sWww     == <<"w","w","w">>
sBook    == <<"b","o","o","k">>
sMovie   == <<"m","o","v","i","e">>
sMusic   == <<"m","u","s","i","c">>
sDouban  == <<".","d","o","u","b","a","n",".","c","o","m">>
sGame    == <<"g","a","m","e">>
sSubject == <<"s","u","b","j","e","c","t">>
sPeople  == <<"p","e","o","p","l","e">>
sSlash   == <<"/">>

\* the error values of ParseDoubanURL
ErrInvalidFormat == "invalid douban URL format"
ErrExtractID     == "failed to extract subject ID from URL"
ErrUnknownType   == "unknown subject type"
ErrInvalidHost   == "invalid host for subject type"
NoErr            == "nil"

----------------------------------------------------------------------------
(* ParseDoubanURL *)

\* The pattern
\*   ^https://(?:(?:www|book|movie)\.douban\.com)/(?:game|subject)/(\d+)/?$
\* FindStringSubmatch: <<whole, group 1>> on a match, <<>> otherwise.
FindStringSubmatch(s) ==
    IF ~HasPrefix(s, sHttps) THEN <<>> ELSE
    LET r1 == Drop(s, Len(sHttps))
        sub == {h \in {sWww, sBook, sMovie} : HasPrefix(r1, h \o sDouban \o sSlash)}
    IN IF sub = {} THEN <<>> ELSE
    LET h  == CHOOSE x \in sub : TRUE
        r2 == Drop(r1, Len(h) + Len(sDouban) + 1)
        kinds == {k \in {sGame, sSubject} : HasPrefix(r2, k \o sSlash)}
    IN IF kinds = {} THEN <<>> ELSE
    LET k  == CHOOSE x \in kinds : TRUE
        r3 == Drop(r2, Len(k) + 1)
        n  == RunLen(r3, Digits)
        r4 == Drop(r3, n)
    IN IF n >= 1 /\ r4 \in {<<>>, sSlash} THEN <<s, Sub(r3, 1, n)>> ELSE <<>>

\* url.Parse(...).Hostname() followed by strings.Split(host, ":")[0]: the
\* authority is what lies between "://" and the next "/", "?" or "#"; the
\* user information up to "@" and the port after ":" are not part of the host.
UrlHost(s) ==
    LET p == Index(s, <<":","/","/">>)
    IN IF p = 0 THEN <<>> ELSE
    LET rest == Drop(s, p + 2)
        auth == Sub(rest, 1, RunLen(rest, {c \in {rest[i] : i \in 1..Len(rest)} :
                                              c \notin {"/", "?", "#"}}))
        at   == Index(auth, <<"@">>)
        hp   == IF at = 0 THEN auth ELSE Drop(auth, at)
    IN Sub(hp, 1, RunLen(hp, {c \in {hp[i] : i \in 1..Len(hp)} : c # ":"}))

\* ValidHosts with the game arm also admitting the movie host
ValidHosts_AnyHostForGame(st) ==
    CASE st = "book" -> <<sBook \o sDouban>>
      [] st \in {"movie", "tv", "anime"} -> <<sMovie \o sDouban>>
      [] st = "game" -> <<sWww \o sDouban, sMovie \o sDouban>>
      [] OTHER -> <<>>

\* the switch on subjectType: the allow-list of hosts, <<>> for the default arm
ValidHosts(st) ==
    CASE st = "book" -> <<sBook \o sDouban>>
      [] st \in {"movie", "tv", "anime"} -> <<sMovie \o sDouban>>
      [] st = "game" -> <<sWww \o sDouban>>
      [] OTHER -> <<>>

\* KnownType with the default arm of the switch left out
KnownType_Any(st) == TRUE

\* the arms of the switch on subjectType other than the default arm
KnownType(st) == st \in {"book", "movie", "tv", "anime", "game"}

ParseDoubanURL(u, st) ==
    LET matches == FindStringSubmatch(u)
    IN IF matches = <<>> THEN [id |-> <<>>, err |-> ErrInvalidFormat]
       ELSE IF Len(matches) <= 1 THEN [id |-> <<>>, err |-> ErrExtractID]
       ELSE IF ~KnownType(st) THEN [id |-> <<>>, err |-> ErrUnknownType]
       ELSE IF \E i \in 1..Len(ValidHosts(st)) : UrlHost(u) = ValidHosts(st)[i]
            THEN [id |-> matches[2], err |-> NoErr]
            ELSE [id |-> <<>>, err |-> ErrInvalidHost]

----------------------------------------------------------------------------
(* Errors are sequences of message parts; the nil error is the empty one. *)

Nil == <<>>

TransportErrs == {<<"context deadline exceeded">>, <<"connection refused">>}
ErrReadBody   == <<"unexpected EOF">>
ErrNewRequest == <<"invalid URL escape">>
ErrBadStatus(status) == <<"bad status", ToString(status)>>
ErrExhausted(cause)  == <<"failed to fetch data after multiple attempts">> \o cause

\* One GET as the network answers it: a transport failure, or a response with
\* a status, a content type and a body of which `cut` bytes arrive before the
\* read fails (Whole: the body arrives completely).
Whole == -1
TransportFailure(e) ==
    [kind |-> "transport", err |-> e, status |-> 0, ctype |-> <<>>, body |-> <<>>, cut |-> Whole]
Response(status, ctype, body, cut) ==
    [kind |-> "response", err |-> Nil, status |-> status, ctype |-> ctype,
     body |-> body, cut |-> cut]

sPercent == <<"%">>

\* http.NewRequest parses the URL it is given; the parse fails on a "%" that
\* does not start a two-digit escape
ValidRequestURL(u) ==
    \A i \in 1..Len(u) :
        u[i] = "%" => i + 2 <= Len(u) /\ u[i + 1] \in Digits /\ u[i + 2] \in Digits

StatusOK == 200

----------------------------------------------------------------------------
(* requestAPI *)

ApiMaxRetries == 2

ApiIdle ==
    [pc |-> "idle", urlOK |-> TRUE, i |-> 0, err |-> Nil, log |-> <<>>, sleeps |-> 0,
     ret |-> [body |-> <<>>, err |-> Nil]]

\* entry: the loop variable and the two result variables at their zero values
ApiEnter(urlOK) ==
    [ApiIdle EXCEPT !.pc = "loop", !.urlOK = urlOK]

\* ApiAttemptErr with every status from 200 to 299 passing the test
ApiAttemptErr_Any2xx(o) ==
    IF o.kind = "transport" THEN o.err
    ELSE IF o.status \notin 200..299 THEN ErrBadStatus(o.status)
    ELSE IF o.cut # Whole THEN ErrReadBody
    ELSE Nil

\* the error an attempt ends with, Nil when the attempt succeeds
ApiAttemptErr(o) ==
    IF o.kind = "transport" THEN o.err
    ELSE IF o.status # StatusOK THEN ErrBadStatus(o.status)
    ELSE IF o.cut # Whole THEN ErrReadBody
    ELSE Nil

\* ApiExhaustedResult keeping the error of the first attempt
ApiExhaustedResult_FirstErr(a) ==
    [body |-> <<>>, err |-> ErrExhausted(ApiAttemptErr(a.log[1]))]

\* the value returned when the loop ends without a success
ApiExhaustedResult(a) == [body |-> <<>>, err |-> ErrExhausted(a.err)]

\* ApiSucceed returning the result variable as it was declared
ApiSucceed_StaleBody(a, o) ==
    [a EXCEPT !.pc = "ret", !.log = Append(@, o), !.ret = [body |-> <<>>, err |-> Nil]]

\* the return of the body that was read
ApiSucceed(a, o) ==
    [a EXCEPT !.pc = "ret", !.log = Append(@, o), !.ret = [body |-> o.body, err |-> Nil]]

\* one iteration of the loop body of requestAPI for caller r; the answer of the
\* network is drawn from outs
ApiAttempt(r, outs) ==
    /\ api[r].pc = "loop"
    /\ api[r].i < ApiMaxRetries
    /\ IF ~api[r].urlOK
       THEN api' = [api EXCEPT ![r].pc = "ret",
                               ![r].ret = [body |-> <<>>, err |-> ErrNewRequest]]
       ELSE \E o \in outs :
              LET e == ApiAttemptErr(o)
              IN IF e # Nil
                 THEN api' = [api EXCEPT ![r].err = e,
                                         ![r].log = Append(@, o),
                                         ![r].sleeps = @ + 1,
                                         ![r].i = @ + 1]
                 ELSE api' = [api EXCEPT ![r] = ApiSucceed(api[r], o)]
    /\ UNCHANGED <<jav, view, parseVars, mi, fr, dl, fileVars, db, req>>

\* the loop condition fails: the statement after the loop
ApiExhaust(r) ==
    /\ api[r].pc = "loop"
    /\ api[r].i >= ApiMaxRetries
    /\ api' = [api EXCEPT ![r].pc = "ret", ![r].ret = ApiExhaustedResult(api[r])]
    /\ UNCHANGED <<jav, view, parseVars, mi, fr, dl, fileVars, db, req>>

----------------------------------------------------------------------------
(* More of the strings package *)

Spaces == {" ", "\t", "\n"}

\* strings.TrimSpace
RECURSIVE TrimLeft(_)
TrimLeft(s) == IF s # <<>> /\ Head(s) \in Spaces THEN TrimLeft(Tail(s)) ELSE s

RECURSIVE TrimRight(_)
TrimRight(s) ==
    IF s # <<>> /\ s[Len(s)] \in Spaces THEN TrimRight(Sub(s, 1, Len(s) - 1)) ELSE s

TrimSpace(s) == TrimRight(TrimLeft(s))

\* strings.Replace(s, old, new, 1): the first occurrence only; an empty old
\* matches at the beginning of s
ReplaceFirst(s, old, new) ==
    LET p == Index(s, old)
    IN IF p = 0 THEN s
       ELSE Sub(s, 1, p - 1) \o new \o Drop(s, p + Len(old) - 1)

\* strings.Split(s, sep) for a non-empty sep
RECURSIVE Split(_, _)
Split(s, sep) ==
    LET p == Index(s, sep)
    IN IF p = 0 THEN <<s>>
       ELSE <<Sub(s, 1, p - 1)>> \o Split(Drop(s, p + Len(sep) - 1), sep)

\* strings.Join
RECURSIVE Join(_, _)
Join(strs, sep) ==
    IF strs = <<>> THEN <<>>
    ELSE IF Len(strs) = 1 THEN strs[1]
    ELSE strs[1] \o sep \o Join(Tail(strs), sep)

----------------------------------------------------------------------------
(* The response documents and their deserialization                        *)
(*                                                                         *)
(* A body is a JSON text: syntactically broken ("malformed"), an object    *)
(* with a member of the wrong type ("mismatch"), or an object.  A member   *)
(* of an object is [p |-> present, v |-> value]; json.Unmarshal leaves the *)
(* zero value in the struct field of an absent member.  The rating member  *)
(* is an optional object with an optional numeric value, in tenths.  A     *)
(* member that is null is left at the zero value like an absent one.       *)

Absent     == [p |-> FALSE, v |-> <<>>]
Member(v)  == [p |-> TRUE, v |-> v]

NoRating        == [p |-> FALSE, value |-> [p |-> FALSE, v |-> 0]]
RatingNoValue   == [p |-> TRUE,  value |-> [p |-> FALSE, v |-> 0]]
RatingOf(x)     == [p |-> TRUE,  value |-> [p |-> TRUE,  v |-> x]]

\* the struct field of a string or list member
Field(m) == IF m.p THEN m.v ELSE <<>>

\* the *DoubanRating field: a nil pointer for an absent member
RatingPtr(m) ==
    IF m.p THEN [nil |-> FALSE, Value |-> IF m.value.p THEN m.value.v ELSE 0]
    ELSE [nil |-> TRUE, Value |-> 0]

\* json.Unmarshal into DoubanBookSubject / DoubanMovieSubject / DoubanGameSubject
UnmarshalBook(o) ==
    [Title |-> Field(o.title), AltTitle |-> Field(o.book_subtitle),
     PubDate |-> Field(o.pubdate), Author |-> Field(o.author), Press |-> Field(o.press),
     Intro |-> Field(o.intro), Cover |-> [Normal |-> Field(o.pic)],
     Rating |-> RatingPtr(o.rating)]

UnmarshalMovie(o) ==
    [Title |-> Field(o.title), AltTitle |-> Field(o.original_title),
     PubDate |-> Field(o.pubdate),
     Directors |-> [i \in 1..Len(Field(o.directors)) |->
                       [Name |-> Field(Field(o.directors)[i].name)]],
     CardSubtitle |-> Field(o.card_subtitle),
     Intro |-> Field(o.intro), Cover |-> [Normal |-> Field(o.pic)],
     Rating |-> RatingPtr(o.rating)]

UnmarshalGame(o) ==
    [Title |-> Field(o.title), TitleCN |-> Field(o.cn_name),
     ReleaseDate |-> Field(o.release_date), Developer |-> Field(o.developers),
     Publisher |-> Field(o.publishers),
     Intro |-> Field(o.intro), Cover |-> [Normal |-> Field(o.pic)],
     Rating |-> RatingPtr(o.rating)]

----------------------------------------------------------------------------
(* FetchDoubanMediaInfo: the projection *)

joinStringsWithSlash(strs) == Join(strs, sSlash)

\* getFirstPubdate taking the last date of the list
getFirstPubdate_Last(pubDates) ==
    IF Len(pubDates) > 0 THEN pubDates[Len(pubDates)] ELSE <<>>

getFirstPubdate(pubDates) == IF Len(pubDates) > 0 THEN pubDates[1] ELSE <<>>

getCreator(directors) ==
    joinStringsWithSlash([i \in 1..Len(directors) |-> directors[i].Name])

\* reading subject.Rating.Value behind the nil test
RatingValue(ptr) == IF ~ptr.nil THEN ptr.Value ELSE 0

sCardSep == <<" ", "/", " ">>

ProjectBook(subject) ==
    [Title    |-> subject.Title,
     AltTitle |-> subject.AltTitle,
     Creator  |-> joinStringsWithSlash(subject.Author),
     Press    |-> joinStringsWithSlash(subject.Press),
     PubDate  |-> getFirstPubdate(subject.PubDate),
     Summary  |-> subject.Intro,
     ImageURL |-> subject.Cover.Normal,
     Rating   |-> RatingValue(subject.Rating)]

\* MoviePress taking the first part
MoviePress_First(cardSubtitle) ==
    LET tagParts == Split(cardSubtitle, sCardSep)
    IN IF Len(tagParts) > 1 THEN tagParts[1] ELSE <<>>

\* press of a movie: the second part of the card subtitle
MoviePress(cardSubtitle) ==
    LET tagParts == Split(cardSubtitle, sCardSep)
    IN IF Len(tagParts) > 1 THEN tagParts[2] ELSE <<>>

ProjectMovie(subject) ==
    [Title    |-> subject.Title,
     AltTitle |-> subject.AltTitle,
     Creator  |-> getCreator(subject.Directors),
     Press    |-> MoviePress(subject.CardSubtitle),
     PubDate  |-> getFirstPubdate(subject.PubDate),
     Summary  |-> subject.Intro,
     ImageURL |-> subject.Cover.Normal,
     Rating   |-> RatingValue(subject.Rating)]

GameTitle(subject) ==
    IF Contains(subject.Title, subject.TitleCN) THEN subject.TitleCN ELSE subject.Title

\* GameAltTitle without the TrimSpace
GameAltTitle_NoTrim(subject) ==
    IF Contains(subject.Title, subject.TitleCN)
    THEN ReplaceFirst(subject.Title, subject.TitleCN, <<>>)
    ELSE subject.TitleCN

GameAltTitle(subject) ==
    IF Contains(subject.Title, subject.TitleCN)
    THEN TrimSpace(ReplaceFirst(subject.Title, subject.TitleCN, <<>>))
    ELSE subject.TitleCN

ProjectGame(subject) ==
    [Title    |-> GameTitle(subject),
     AltTitle |-> GameAltTitle(subject),
     Creator  |-> joinStringsWithSlash(subject.Developer),
     Press    |-> joinStringsWithSlash(subject.Publisher),
     PubDate  |-> subject.ReleaseDate,
     Summary  |-> subject.Intro,
     ImageURL |-> subject.Cover.Normal,
     Rating   |-> RatingValue(subject.Rating)]

\* MediaSubject{}
ZeroMediaSubject ==
    [Title |-> <<>>, AltTitle |-> <<>>, Creator |-> <<>>, Press |-> <<>>,
     PubDate |-> <<>>, Summary |-> <<>>, ImageURL |-> <<>>, Rating |-> 0]

ErrUnmarshal == <<"json: cannot unmarshal">>

\* the part of FetchDoubanMediaInfo after requestAPI has returned jsonData
DecodeAndProject(st, jsonData) ==
    IF jsonData.json # "object"
    THEN [info |-> ZeroMediaSubject, err |-> ErrUnmarshal]
    ELSE [info |-> IF st = "book" THEN ProjectBook(UnmarshalBook(jsonData.obj))
                   ELSE IF st = "game" THEN ProjectGame(UnmarshalGame(jsonData.obj))
                   ELSE ProjectMovie(UnmarshalMovie(jsonData.obj)),
          err  |-> Nil]

----------------------------------------------------------------------------
(* Enumerated inputs of ParseDoubanURL *)

RECURSIVE SeqsUpTo(_, _)
SeqsUpTo(S, n) ==
    IF n = 0 THEN {<<>>}
    ELSE LET shorter == SeqsUpTo(S, n - 1)
         IN shorter \cup {Append(s, c) : s \in shorter, c \in S}

UrlSchemes == {sHttps, sHttp}
UrlHosts   == {sWww \o sDouban, sBook \o sDouban, sMovie \o sDouban, sMusic \o sDouban}
UrlKinds   == {sSubject, sGame, sPeople}
UrlIds     == SeqsUpTo({"0", "7", "a"}, MaxIdLen)
UrlTails   == {<<>>, sSlash, <<"/", "/">>, <<"/", "x">>, <<"?", "a">>}

MkUrl(sch, h, k, id, t) == sch \o h \o sSlash \o k \o sSlash \o id \o t

Urls == {MkUrl(sch, h, k, id, t) :
            sch \in UrlSchemes, h \in UrlHosts, k \in UrlKinds, id \in UrlIds, t \in UrlTails}

SubjectTypes == {"book", "movie", "tv", "anime", "game", "music"}


----------------------------------------------------------------------------
(* The image directory                                                     *)
(*                                                                         *)
(* links maps a file name <<subjectID, ext>> to the file it names, inodes  *)
(* maps a file to its content.  A file lives while it is named or open.    *)

NoFiles == [x \in {} |-> 0]

\* the files some activation of downloadImage holds open
OpenFiles(d) == {d[r].out : r \in DOMAIN d} \ {0}

LinkedFiles(l) == {l[p] : p \in DOMAIN l}

\* the smallest file number in use neither by a name nor by an open handle
FreshFile(l, d) ==
    CHOOSE n \in 1..(Cardinality(LinkedFiles(l) \cup OpenFiles(d)) + 1) :
        /\ n \notin LinkedFiles(l) \cup OpenFiles(d)
        /\ \A m \in 1..(n - 1) : m \in LinkedFiles(l) \cup OpenFiles(d)

\* file contents restricted to the files in use
Live(ino, l, d) == [n \in (DOMAIN ino) \cap (LinkedFiles(l) \cup OpenFiles(d)) |-> ino[n]]

\* Unlink that leaves the name in place
Unlink_Skipped(l, path) == l

\* os.Remove: the name goes, a missing name is an error that is ignored
Unlink(l, path) == [p \in (DOMAIN l) \ {path} |-> l[p]]

\* a write of bytes at offset 0 of a file
Overwrite(data, bytes) == bytes \o Drop(data, Len(bytes))

\* Truncated for a file opened without O_TRUNC
Truncated_Kept(data) == data

\* the content of an existing file after os.Create has opened it (O_TRUNC)
Truncated(data) == <<>>

----------------------------------------------------------------------------
(* downloadImage *)

DlMaxRetries == 3

sPng  == <<"p", "n", "g">>
sGif  == <<"g", "i", "f">>
sWebp == <<"w", "e", "b", "p">>

ErrEmptyURL == <<"empty image URL">>
ErrCreate   == <<"failed to create file">>
ErrSave     == <<"failed to save image">>
ErrDlTransport(cause) == <<"failed to download image after 3 attempts">> \o cause
ErrDlStatus(status)   == <<"failed to download image: status", ToString(status)>>

\* the extension chosen from the Content-Type header
Ext(contentType) ==
    IF Contains(contentType, sPng) THEN <<".">> \o sPng
    ELSE IF Contains(contentType, sGif) THEN <<".">> \o sGif
    ELSE IF Contains(contentType, sWebp) THEN <<".">> \o sWebp
    ELSE <<".", "j", "p", "g">>

NoPath == <<>>

DlIdle ==
    [pc |-> "idle", imageURL |-> <<>>, subjectID |-> <<>>, attempt |-> 0, log |-> <<>>,
     sleeps |-> 0, localPath |-> NoPath, out |-> 0,
     ret |-> [path |-> NoPath, err |-> Nil]]

DlFail(d, e) == [d EXCEPT !.pc = "ret", !.out = 0, !.ret = [path |-> NoPath, err |-> e]]

\* DlRetryOrFail without the return on the last attempt
DlRetryOrFail_NoReturn(d, e) == [d EXCEPT !.sleeps = @ + 1, !.attempt = @ + 1]

\* the branch taken when an attempt cannot be completed: the error is returned
\* on the last attempt, otherwise the loop sleeps and continues
DlRetryOrFail(d, e) ==
    IF d.attempt = DlMaxRetries THEN DlFail(d, e)
    ELSE [d EXCEPT !.sleeps = @ + 1, !.attempt = @ + 1]

\* EmptySource with the test left out
EmptySource_Never(imageURL) == FALSE

\* imageURL == ""
EmptySource(imageURL) == imageURL = <<>>

\* entry: the test of the empty URL
DlCall(r, imageURL, subjectID) ==
    /\ dl[r].pc \in {"idle", "ret"}
    /\ LET d == [DlIdle EXCEPT !.imageURL = imageURL, !.subjectID = subjectID]
       IN dl' = [dl EXCEPT ![r] = IF EmptySource(imageURL) THEN DlFail(d, ErrEmptyURL)
                                  ELSE [d EXCEPT !.pc = "loop", !.attempt = 1]]
    /\ UNCHANGED <<jav, view, parseVars, fetchVars, fr, fileVars, db, req>>

\* one iteration of the loop up to the choice of the file name
DlAttempt(r, outs) ==
    /\ dl[r].pc = "loop"
    /\ dl[r].attempt <= DlMaxRetries
    /\ IF ~ValidRequestURL(dl[r].imageURL)
       THEN dl' = [dl EXCEPT ![r] = DlRetryOrFail(dl[r], ErrNewRequest)]
       ELSE \E o \in outs :
              LET d == [dl[r] EXCEPT !.log = Append(@, o)]
              IN dl' = [dl EXCEPT ![r] =
                   IF o.kind = "transport" THEN DlRetryOrFail(d, ErrDlTransport(o.err))
                   ELSE IF o.status # StatusOK THEN DlRetryOrFail(d, ErrDlStatus(o.status))
                   ELSE [d EXCEPT !.pc = "create",
                                  !.localPath = <<d.subjectID, Ext(o.ctype)>>]]
    /\ UNCHANGED <<jav, view, parseVars, fetchVars, fr, fileVars, db, req>>

\* os.Create(localPath): it fails, or it opens the named file emptied, or it
\* makes a new empty file under the name
DlCreate(r) ==
    /\ dl[r].pc = "create"
    /\ \/ /\ dl' = [dl EXCEPT ![r] = DlFail(dl[r], ErrCreate)]
          /\ UNCHANGED fileVars
       \/ LET path == dl[r].localPath
              f == IF path \in DOMAIN links THEN links[path] ELSE FreshFile(links, dl)
          IN /\ links' = [p \in (DOMAIN links) \cup {path} |-> IF p = path THEN f ELSE links[p]]
             /\ inodes' = [n \in (DOMAIN inodes) \cup {f} |->
                              IF n # f THEN inodes[n]
                              ELSE IF f \in DOMAIN inodes THEN Truncated(inodes[f]) ELSE <<>>]
             /\ dl' = [dl EXCEPT ![r].pc = "copy", ![r].out = f]
    /\ UNCHANGED <<jav, view, parseVars, fetchVars, fr, db, req>>

\* io.Copy(out, resp.Body): the bytes that arrive are written; the copy ends
\* with the whole body written, or with an error after `cut` bytes
DlCopy(r) ==
    /\ dl[r].pc = "copy"
    /\ LET o == dl[r].log[Len(dl[r].log)]
           f == dl[r].out
           arrived == IF o.cut = Whole THEN o.body ELSE Sub(o.body, 1, o.cut)
           written == [inodes EXCEPT ![f] = Overwrite(@, arrived)]
       IN IF o.cut = Whole
          THEN /\ dl' = [dl EXCEPT ![r].pc = "ret", ![r].out = 0,
                                   ![r].ret = [path |-> dl[r].localPath, err |-> Nil]]
               /\ inodes' = Live(written, links, dl')
          ELSE /\ dl' = [dl EXCEPT ![r].pc = "remove"]
               /\ inodes' = written
    /\ UNCHANGED <<jav, view, parseVars, fetchVars, fr, links, db, req>>

\* os.Remove(localPath) and the return of the save error
DlRemove(r) ==
    /\ dl[r].pc = "remove"
    /\ links' = Unlink(links, dl[r].localPath)
    /\ dl' = [dl EXCEPT ![r] = DlFail(dl[r], ErrSave)]
    /\ inodes' = Live(inodes, links', dl')
    /\ UNCHANGED <<jav, view, parseVars, fetchVars, fr, db, req>>

----------------------------------------------------------------------------
(* extractRatingFromHTML                                                   *)
(*                                                                         *)
(* The markup is a sequence of elements <tag class="..." property="...">   *)
(* text</close>.  None of the three patterns can extend over a ">", so a   *)
(* match lies within one element: the attributes before its ">", the       *)
(* number as its whole text, and "</strong>" as its closing tag.           *)

sStrong    == <<"s", "t", "r", "o", "n", "g">>
sSpan      == <<"s", "p", "a", "n">>
sRating    == <<"r", "a", "t", "i", "n", "g">>
sRatingNum == sRating \o <<"_", "n", "u", "m">>
sAverage   == <<"v", ":", "a", "v", "e", "r", "a", "g", "e">>

Element(tag, class, property, text, close) ==
    [tag |-> tag, class |-> class, property |-> property, text |-> text, close |-> close]

\* (\d+\.?\d*) as the whole text of the element
IsNumberText(text) ==
    LET n == RunLen(text, Digits)
        rest == Drop(text, n)
        frac == IF rest # <<>> /\ Head(rest) = "." THEN Tail(rest) ELSE rest
    IN n >= 1 /\ RunLen(frac, Digits) = Len(frac)

\* the three patterns, in the order of the list
PatternMatches(k, e) ==
    /\ IsNumberText(e.text)
    /\ e.close = sStrong
    /\ CASE k = 1 -> HasPrefix(e.tag, sStrong) /\ e.class.p /\ Contains(e.class.v, sRating)
         [] k = 2 -> e.property.p /\ e.property.v = sAverage
         [] k = 3 -> \/ Contains(e.tag, sRatingNum)
                     \/ e.class.p /\ Contains(e.class.v, sRatingNum)
                     \/ e.property.p /\ Contains(e.property.v, sRatingNum)

DigitValue(c) ==
    CASE c = "0" -> 0 [] c = "1" -> 1 [] c = "2" -> 2 [] c = "3" -> 3 [] c = "4" -> 4
      [] c = "5" -> 5 [] c = "6" -> 6 [] c = "7" -> 7 [] c = "8" -> 8 [] c = "9" -> 9

RECURSIVE DecimalValue(_)
DecimalValue(ds) ==
    IF ds = <<>> THEN 0 ELSE 10 * DecimalValue(Sub(ds, 1, Len(ds) - 1)) + DigitValue(ds[Len(ds)])

\* strconv.ParseFloat of a text of the form \d+\.?\d*, in tenths; exact for
\* texts with at most one digit after the point.  The only error is the range
\* error of a number beyond the largest float64 (more than 308 integer digits).
ParseFloat(text) ==
    LET n == RunLen(text, Digits)
        frac == Drop(text, n + 1)
    IN [ok |-> n <= 308,
        v  |-> 10 * DecimalValue(Sub(text, 1, n))
                 + (IF frac = <<>> THEN 0 ELSE DigitValue(frac[1]))]

\* FindStringSubmatch for pattern k: the index of the leftmost matching
\* element, 0 when there is none
FirstMatch(k, html) ==
    LET ms == {i \in 1..Len(html) : PatternMatches(k, html[i])}
    IN IF ms = {} THEN 0 ELSE CHOOSE i \in ms : \A j \in ms : i <= j

RECURSIVE ExtractFrom(_, _)
ExtractFrom(k, html) ==
    IF k > 3 THEN 0
    ELSE LET i == FirstMatch(k, html)
         IN IF i # 0 /\ ParseFloat(html[i].text).ok
            THEN ParseFloat(html[i].text).v
            ELSE ExtractFrom(k + 1, html)

extractRatingFromHTML(html) == ExtractFrom(1, html)

----------------------------------------------------------------------------
(* fetchRating *)

FrIdle == [pc |-> "idle", doubanURL |-> <<>>, log |-> <<>>, ret |-> 0]

\* the part of the body that the read loop has collected when it stops
Arrived(o) == IF o.cut = Whole THEN o.body ELSE Sub(o.body, 1, o.cut)

\* RatingOfAnswer without the test of the status code
RatingOfAnswer_NoStatusCheck(o) ==
    IF o.kind = "transport" THEN 0 ELSE extractRatingFromHTML(Arrived(o))

\* the value returned for the answer o of the page request
RatingOfAnswer(o) ==
    IF o.kind = "transport" THEN 0
    ELSE IF o.status # StatusOK THEN 0
    ELSE extractRatingFromHTML(Arrived(o))

\* entry and http.NewRequest
FrCall(r, doubanURL) ==
    /\ fr[r].pc \in {"idle", "ret"}
    /\ fr' = [fr EXCEPT ![r] = IF ValidRequestURL(doubanURL)
                               THEN [FrIdle EXCEPT !.pc = "get", !.doubanURL = doubanURL]
                               ELSE [FrIdle EXCEPT !.pc = "ret", !.doubanURL = doubanURL]]
    /\ UNCHANGED <<jav, view, parseVars, fetchVars, dl, fileVars, db, req>>

\* client.Do and everything after it
FrGet(r, outs) ==
    /\ fr[r].pc = "get"
    /\ \E o \in outs :
          fr' = [fr EXCEPT ![r].pc = "ret", ![r].log = <<o>>, ![r].ret = RatingOfAnswer(o)]
    /\ UNCHANGED <<jav, view, parseVars, fetchVars, dl, fileVars, db, req>>

----------------------------------------------------------------------------
(* FetchDoubanMediaInfo as a caller of requestAPI *)

MiIdle == [pc |-> "idle", st |-> "", id |-> <<>>,
           ret |-> [info |-> ZeroMediaSubject, err |-> Nil]]

\* entry up to the call of requestAPI
FetchCall(r, st, id) ==
    /\ mi[r].pc \in {"idle", "ret"}
    /\ mi' = [mi EXCEPT ![r] = [MiIdle EXCEPT !.pc = "api", !.st = st, !.id = id]]
    /\ api' = [api EXCEPT ![r] = ApiEnter(ValidRequestURL(id))]
    /\ UNCHANGED <<jav, view, parseVars, fr, dl, fileVars, db, req>>

\* from the return of requestAPI to the return of FetchDoubanMediaInfo
FetchReturn(r) ==
    /\ mi[r].pc = "api"
    /\ api[r].pc = "ret"
    /\ mi' = [mi EXCEPT ![r].pc = "ret",
                        ![r].ret = IF api[r].ret.err # Nil
                                   THEN [info |-> ZeroMediaSubject, err |-> api[r].ret.err]
                                   ELSE DecodeAndProject(mi[r].st, api[r].ret.body)]
    /\ UNCHANGED <<jav, view, parseVars, api, fr, dl, fileVars, db, req>>

----------------------------------------------------------------------------
(* addMovieHandler *)

sBookHost == sBook \o sDouban
sGamePath == sWww \o sDouban \o sSlash \o sGame \o sSlash
sImages   == <<"/", "i", "m", "a", "g", "e", "s", "/">>

\* the redirects and the error response the handler ends with
RespMethod     == "405 Method not allowed"
RespNoURL      == "error: no link given"
RespBadURL     == "error: invalid link"
RespFetchFail  == "error: fetching the information failed"
RespQueryFail  == "error: database query failed"
RespSaveFail   == "error: saving the movie failed"
RespUpdated    == "success: exists, watch time updated"
RespAdded      == "success: added"

\* strings.Fields(dateStr)[0], the empty string when there is no field
extractYear(dateStr) ==
    LET t == TrimLeft(dateStr)
    IN Sub(t, 1, RunLen(t, {c \in {t[i] : i \in 1..Len(t)} : c \notin Spaces}))

\* the link type guessed from the text of the link
GuessType(doubanURL) ==
    IF Contains(doubanURL, sBookHost) THEN "book"
    ELSE IF Contains(doubanURL, sGamePath) THEN "game"
    ELSE "movie"

\* filepath.Base of the path <<subjectID, ext>> in the image directory
Base(localPath) == localPath[1] \o localPath[2]

\* a watch date of the form: [ok |-> it parses as 2006-01-02, t |-> the day]
WatchedAt(watchedAtStr, now) == IF watchedAtStr.ok THEN watchedAtStr.t ELSE now

NoRow ==
    [ID |-> 0, DoubanID |-> <<>>, DoubanURL |-> <<>>, Title |-> <<>>, AltTitle |-> <<>>,
     Director |-> <<>>, PubDate |-> <<>>, ImageURL |-> <<>>, Rating |-> 0, Year |-> <<>>,
     Summary |-> <<>>, IsFavorite |-> FALSE, WatchedAt |-> 0, CreatedAt |-> 0]

ReqIdle ==
    [pc |-> "idle", doubanURL |-> <<>>, watchedAt |-> 0, now |-> 0,
     subjectType |-> "", subjectID |-> <<>>, mediaInfo |-> ZeroMediaSubject,
     lookup |-> "", existingMovie |-> NoRow, rating |-> 0, localImageURL |-> <<>>,
     trace |-> <<>>, resp |-> ""]

ReqDone(q, resp) == [q EXCEPT !.pc = "done", !.resp = resp]

\* db.Where("douban_id = ?", subjectID).First(&existingMovie): the index of the
\* row, 0 for ErrRecordNotFound
RowOf(table, doubanID) ==
    LET is == {i \in 1..Len(table) : table[i].DoubanID = doubanID}
    IN IF is = {} THEN 0 ELSE CHOOSE i \in is : \A j \in is : i <= j

\* db.Save(&existingMovie): every column of the row with that primary key
Saved(table, row) == [i \in 1..Len(table) |-> IF table[i].ID = row.ID THEN row ELSE table[i]]

\* the Movie literal of the handler
NewMovie(q) ==
    [NoRow EXCEPT !.DoubanID = q.subjectID, !.DoubanURL = q.doubanURL,
                  !.Title = q.mediaInfo.Title, !.AltTitle = q.mediaInfo.AltTitle,
                  !.Director = q.mediaInfo.Creator, !.PubDate = q.mediaInfo.PubDate,
                  !.ImageURL = q.localImageURL, !.Rating = q.rating,
                  !.Year = extractYear(q.mediaInfo.PubDate),
                  !.Summary = q.mediaInfo.Summary,
                  !.WatchedAt = q.watchedAt, !.CreatedAt = q.now]

\* the test that sends the update branch to downloadImage
NeedsDownload(info, existing) ==
    info.ImageURL # <<>>
    /\ (~HasPrefix(existing.ImageURL, sImages) \/ existing.ImageURL = <<>>)

\* from the entry of the handler to the call of FetchDoubanMediaInfo; the
\* activations of the functions the previous request called are gone
AddStart(r, method, doubanURL, watchedAtStr, now) ==
    /\ req[r].pc \in {"idle", "done"}
    /\ LET q == [ReqIdle EXCEPT !.doubanURL = doubanURL, !.now = now,
                                !.watchedAt = WatchedAt(watchedAtStr, now),
                                !.subjectType = GuessType(doubanURL)]
           p == ParseDoubanURL(doubanURL, q.subjectType)
       IN IF method # "POST" THEN
             /\ req' = [req EXCEPT ![r] = ReqDone(ReqIdle, RespMethod)]
             /\ api' = [api EXCEPT ![r] = ApiIdle]
             /\ mi' = [mi EXCEPT ![r] = MiIdle]
          ELSE IF doubanURL = <<>> THEN
             /\ req' = [req EXCEPT ![r] = ReqDone(ReqIdle, RespNoURL)]
             /\ api' = [api EXCEPT ![r] = ApiIdle]
             /\ mi' = [mi EXCEPT ![r] = MiIdle]
          ELSE IF p.err # NoErr THEN
             /\ req' = [req EXCEPT ![r] =
                          ReqDone([q EXCEPT !.trace = <<"ParseDoubanURL">>], RespBadURL)]
             /\ api' = [api EXCEPT ![r] = ApiIdle]
             /\ mi' = [mi EXCEPT ![r] = MiIdle]
          ELSE
             /\ req' = [req EXCEPT ![r] =
                          [q EXCEPT !.pc = "fetch", !.subjectID = p.id,
                                    !.trace = <<"ParseDoubanURL", "FetchDoubanMediaInfo">>]]
             /\ mi' = [mi EXCEPT ![r] = [MiIdle EXCEPT !.pc = "api", !.st = q.subjectType,
                                                      !.id = p.id]]
             /\ api' = [api EXCEPT ![r] = ApiEnter(ValidRequestURL(p.id))]
    /\ fr' = [fr EXCEPT ![r] = FrIdle]
    /\ dl' = [dl EXCEPT ![r] = DlIdle]
    /\ UNCHANGED <<jav, view, parseVars, fileVars, db>>

\* Rewatched taking the rating of the new answer as well
Rewatched_Rerated(existing, q) ==
    [existing EXCEPT !.WatchedAt = q.watchedAt, !.DoubanURL = q.doubanURL,
                     !.Rating = q.mediaInfo.Rating]

\* the two assignments to the stored record at the head of the update branch
Rewatched(existing, q) ==
    [existing EXCEPT !.WatchedAt = q.watchedAt, !.DoubanURL = q.doubanURL]

\* FetchFailed with the test left out
FetchFailed_Ignored(ret) == FALSE

\* the test of the error of FetchDoubanMediaInfo
FetchFailed(ret) == ret.err # Nil

\* from the return of FetchDoubanMediaInfo through the query for the stored
\* record; in the update branch up to the call of downloadImage or, when no
\* download is due, to the end of the handler
AddLookup(r) ==
    /\ req[r].pc = "fetch"
    /\ mi[r].pc = "ret"
    /\ LET q == [req[r] EXCEPT !.mediaInfo = mi[r].ret.info]
           i == RowOf(db, q.subjectID)
       IN IF FetchFailed(mi[r].ret) THEN
             /\ req' = [req EXCEPT ![r] = ReqDone(req[r], RespFetchFail)]
             /\ UNCHANGED <<dl, db>>
          ELSE
             \/ /\ req' = [req EXCEPT ![r] = ReqDone([q EXCEPT !.lookup = "error"], RespQueryFail)]
                /\ UNCHANGED <<dl, db>>
             \/ /\ i = 0
                /\ req' = [req EXCEPT ![r] = [q EXCEPT !.pc = "new", !.lookup = "not found"]]
                /\ UNCHANGED <<dl, db>>
             \/ /\ i # 0
                /\ LET e == Rewatched(db[i], q)
                   IN IF NeedsDownload(q.mediaInfo, e)
                      THEN /\ req' = [req EXCEPT ![r] =
                                        [q EXCEPT !.pc = "update", !.lookup = "found",
                                                  !.existingMovie = e,
                                                  !.trace = Append(@, "downloadImage")]]
                           /\ dl' = [dl EXCEPT ![r] =
                                       [DlIdle EXCEPT !.pc = "loop", !.attempt = 1,
                                                      !.imageURL = q.mediaInfo.ImageURL,
                                                      !.subjectID = q.subjectID]]
                           /\ UNCHANGED db
                      ELSE /\ req' = [req EXCEPT ![r] =
                                        ReqDone([q EXCEPT !.lookup = "found",
                                                          !.existingMovie = e], RespUpdated)]
                           /\ db' \in {Saved(db, e), db}
                           /\ UNCHANGED dl
    /\ UNCHANGED <<jav, view, parseVars, fetchVars, fr, fileVars>>

\* update branch: from the return of downloadImage to the end of the handler;
\* the error of db.Save is not looked at, so the row is written or it is not
AddUpdate(r) ==
    /\ req[r].pc = "update"
    /\ dl[r].pc = "ret"
    /\ LET e == IF dl[r].ret.err = Nil
                THEN [req[r].existingMovie EXCEPT !.ImageURL = sImages \o Base(dl[r].ret.path)]
                ELSE req[r].existingMovie
       IN /\ db' \in {Saved(db, e), db}
          /\ req' = [req EXCEPT ![r] =
                       ReqDone([req[r] EXCEPT !.existingMovie = e,
                                              !.trace = Append(@, "downloadImage returned")],
                               RespUpdated)]
    /\ UNCHANGED <<jav, view, parseVars, fetchVars, fr, dl, fileVars>>

\* NeedsBackfill with the test left out
NeedsBackfill_Never(rating) == FALSE

\* the test that sends the create branch to fetchRating
NeedsBackfill(rating) == rating = 0

\* create branch: the year and the rating, up to the call of fetchRating when
\* the API gave no rating
AddRating(r) ==
    /\ req[r].pc = "new"
    /\ IF NeedsBackfill(req[r].mediaInfo.Rating)
       THEN /\ req' = [req EXCEPT ![r].pc = "rating",
                                  ![r].rating = 0,
                                  ![r].trace = Append(@, "fetchRating")]
            /\ fr' = [fr EXCEPT ![r] =
                        IF ValidRequestURL(req[r].doubanURL)
                        THEN [FrIdle EXCEPT !.pc = "get", !.doubanURL = req[r].doubanURL]
                        ELSE [FrIdle EXCEPT !.pc = "ret", !.doubanURL = req[r].doubanURL]]
       ELSE /\ req' = [req EXCEPT ![r].pc = "image", ![r].rating = req[r].mediaInfo.Rating]
            /\ UNCHANGED fr
    /\ UNCHANGED <<jav, view, parseVars, fetchVars, dl, fileVars, db>>

\* create branch: the return of fetchRating
AddRated(r) ==
    /\ req[r].pc = "rating"
    /\ fr[r].pc = "ret"
    /\ req' = [req EXCEPT ![r].pc = "image", ![r].rating = fr[r].ret,
                          ![r].trace = Append(@, "fetchRating returned")]
    /\ UNCHANGED <<jav, view, parseVars, fetchVars, fr, dl, fileVars, db>>

\* create branch: the call of downloadImage when there is a remote image
AddImage(r) ==
    /\ req[r].pc = "image"
    /\ IF req[r].mediaInfo.ImageURL # <<>>
       THEN /\ req' = [req EXCEPT ![r].pc = "download",
                                  ![r].trace = Append(@, "downloadImage")]
            /\ dl' = [dl EXCEPT ![r] =
                        [DlIdle EXCEPT !.pc = "loop", !.attempt = 1,
                                       !.imageURL = req[r].mediaInfo.ImageURL,
                                       !.subjectID = req[r].subjectID]]
       ELSE /\ req' = [req EXCEPT ![r].pc = "create", ![r].localImageURL = <<>>]
            /\ UNCHANGED dl
    /\ UNCHANGED <<jav, view, parseVars, fetchVars, fr, fileVars, db>>

\* ImageReference without the fall back to the remote URL
ImageReference_NoFallback(ret, remote) ==
    IF ret.err # Nil THEN <<>> ELSE sImages \o Base(ret.path)

\* localImageURL after the return ret of downloadImage
ImageReference(ret, remote) ==
    IF ret.err # Nil THEN remote ELSE sImages \o Base(ret.path)

\* create branch: the return of downloadImage
AddDownloaded(r) ==
    /\ req[r].pc = "download"
    /\ dl[r].pc = "ret"
    /\ req' = [req EXCEPT ![r].pc = "create",
                          ![r].localImageURL =
                              ImageReference(dl[r].ret, req[r].mediaInfo.ImageURL),
                          ![r].trace = Append(@, "downloadImage returned")]
    /\ UNCHANGED <<jav, view, parseVars, fetchVars, fr, dl, fileVars, db>>

\* UniqueViolation for a table without the index
UniqueViolation_NoIndex(table, doubanID) == FALSE

\* the unique index on the column DoubanID: a row with the value is stored
UniqueViolation(table, doubanID) == RowOf(table, doubanID) # 0

\* create branch: db.Create(&movie); the unique index on DoubanID rejects a
\* second row for the identifier, and the store can fail otherwise
AddCreate(r) ==
    /\ req[r].pc = "create"
    /\ \/ /\ ~UniqueViolation(db, req[r].subjectID)
          /\ db' = Append(db, [NewMovie(req[r]) EXCEPT !.ID = Len(db) + 1])
          /\ req' = [req EXCEPT ![r] = ReqDone(req[r], RespAdded)]
       \/ /\ req' = [req EXCEPT ![r] = ReqDone(req[r], RespSaveFail)]
          /\ UNCHANGED db
    /\ UNCHANGED <<jav, view, parseVars, fetchVars, fr, dl, fileVars>>

----------------------------------------------------------------------------
(* fetchJavInfoFromPython *)
(*                                                                         *)
(* The output of the subprocess is a sequence of characters in which the   *)
(* text of one JSON value counts as one unit: the unit names the value in  *)
(* the table of the JSON texts that can occur, and decoding looks it up.   *)

sStartMarker == <<"_", "_", "J", "S", "O", "N", "_", "S", "T", "A", "R", "T", "_", "_">>
sEndMarker   == <<"_", "_", "J", "S", "O", "N", "_", "E", "N", "D", "_", "_">>

ErrJavRun    == <<"python script failed">>
ErrJavNoJSON == <<"no valid JSON output found">>
ErrJavParse  == <<"JSON parse failed">>

\* JSON values
JNull       == [t |-> "null"]
JBool(b)    == [t |-> "boolean", b |-> b]
JNumber(n)  == [t |-> "number", n |-> n]
JString(x)  == [t |-> "string", s |-> x]
JArray(xs)  == [t |-> "array", xs |-> xs]
JObject(m)  == [t |-> "object", m |-> m]

\* the map of an object without members, and the nil map
NoMembers == [k \in {} |-> JNull]

JavKeySeq ==
    <<"number", "title", "poster", "thumb", "actor", "release", "year", "tag", "mosaic",
      "runtime", "studio", "publisher", "director", "series", "website">>

JavKeys == {JavKeySeq[i] : i \in 1..Len(JavKeySeq)}

\* getString taking the type name of a value that is no string
getString_Printed(m, key) ==
    IF key \in DOMAIN m
    THEN IF m[key].t = "string" THEN m[key].s ELSE <<m[key].t>>
    ELSE <<>>

\* getString: the value under the key when it is there and is a string
getString(m, key) ==
    IF key \in DOMAIN m
    THEN IF m[key].t = "string" THEN m[key].s ELSE <<>>
    ELSE <<>>

\* the JavMovie literal
JavMovieOf(result) ==
    [Number    |-> getString(result, "number"),
     Title     |-> getString(result, "title"),
     Poster    |-> getString(result, "poster"),
     Thumb     |-> getString(result, "thumb"),
     Actor     |-> getString(result, "actor"),
     Release   |-> getString(result, "release"),
     Year      |-> getString(result, "year"),
     Tag       |-> getString(result, "tag"),
     Mosaic    |-> getString(result, "mosaic"),
     Runtime   |-> getString(result, "runtime"),
     Studio    |-> getString(result, "studio"),
     Publisher |-> getString(result, "publisher"),
     Director  |-> getString(result, "director"),
     Series    |-> getString(result, "series"),
     Website   |-> getString(result, "website")]

NoJavMovie == JavMovieOf(NoMembers)

sJavText == <<"a", "b">>

\* what a member of an emitted object can be
JavMemberSeq ==
    <<Absent, Member(JString(sJavText)), Member(JString(<<>>)), Member(JNumber(1)),
      Member(JBool(TRUE)), Member(JNull), Member(JArray(<<JString(sJavText)>>)),
      Member(JObject(NoMembers))>>

JavMembers == {JavMemberSeq[i] : i \in 1..Len(JavMemberSeq)}

\* the object in which every key has its own name as its string value
JavFull == [k \in JavKeys |-> JString(<<k>>)]

\* JavFull with key as the member x
JavWith(key, x) ==
    [k \in (IF x.p THEN JavKeys ELSE JavKeys \ {key}) |-> IF k = key THEN x.v ELSE JavFull[k]]

\* the table of the JSON texts: the objects that differ from JavFull in one
\* member, then JavFull, the empty object and the values that are no object
JavTexts ==
    [i \in 1..(Len(JavKeySeq) * Len(JavMemberSeq)) |->
        JObject(JavWith(JavKeySeq[((i - 1) \div Len(JavMemberSeq)) + 1],
                        JavMemberSeq[((i - 1) % Len(JavMemberSeq)) + 1]))]
    \o <<JObject(JavFull), JObject(NoMembers), JNull, JNumber(1), JBool(TRUE),
         JString(sJavText), JArray(<<JObject(JavFull)>>)>>

\* the values whose texts the subprocess can emit, and the maps among them
JavValues == {JavTexts[i] : i \in 1..Len(JavTexts)}
JavMaps   == {v.m : v \in {x \in JavValues : x.t = "object"}}

\* the text of a JSON value, one unit of the output
JsonText(v) == "json" \o ToString(CHOOSE i \in 1..Len(JavTexts) : JavTexts[i] = v)

\* json.Unmarshal([]byte(jsonStr), &result) with result a map[string]interface{}:
\* an object fills the map, null leaves the nil map, every other value and
\* every text that is no JSON value is an error
UnmarshalMap(jsonStr) ==
    LET vs == {v \in JavValues : jsonStr = <<JsonText(v)>>}
    IN IF vs = {} THEN [ok |-> FALSE, result |-> NoMembers]
       ELSE LET v == CHOOSE x \in vs : TRUE
            IN IF v.t = "object" THEN [ok |-> TRUE, result |-> v.m]
               ELSE IF v.t = "null" THEN [ok |-> TRUE, result |-> NoMembers]
               ELSE [ok |-> FALSE, result |-> NoMembers]

JavReturn(movie)  == [kind |-> "record", movie |-> movie, err |-> Nil]
JavError(e)       == [kind |-> "error", movie |-> NoJavMovie, err |-> e]
\* outputStr[lo:hi] with lo > hi: the goroutine panics
JavPanic          == [kind |-> "panic", movie |-> NoJavMovie, err |-> Nil]

\* the function from the return of cmd.CombinedOutput on; failed says that the
\* command ended with an error
fetchJavInfoFromPython(failed, outputStr) ==
    IF failed THEN JavError(ErrJavRun) ELSE
    LET startIdx == Index(outputStr, sStartMarker) - 1
        endIdx   == Index(outputStr, sEndMarker) - 1
    IN IF startIdx = -1 \/ endIdx = -1 THEN JavError(ErrJavNoJSON)
       ELSE IF startIdx + Len(sStartMarker) > endIdx THEN JavPanic
       ELSE LET jsonStr == TrimSpace(Sub(outputStr, startIdx + Len(sStartMarker) + 1, endIdx))
                u == UnmarshalMap(jsonStr)
            IN IF ~u.ok THEN JavError(ErrJavParse) ELSE JavReturn(JavMovieOf(u.result))

JavIdle == [pc |-> "idle", number |-> <<>>, failed |-> FALSE, output |-> <<>>,
            ret |-> JavError(Nil)]

\* the call up to the start of the subprocess
JavCall(number) ==
    /\ jav.pc \in {"idle", "ret"}
    /\ jav' = [JavIdle EXCEPT !.pc = "run", !.number = number]
    /\ UNCHANGED <<view, parseVars, fetchVars, fr, dl, fileVars, db, req>>

\* the subprocess ends with one of the outputs, and the function returns
JavRun(outputs) ==
    /\ jav.pc = "run"
    /\ \E failed \in BOOLEAN, o \in outputs :
          jav' = [jav EXCEPT !.pc = "ret", !.failed = failed, !.output = o,
                             !.ret = fetchJavInfoFromPython(failed, o)]
    /\ UNCHANGED <<view, parseVars, fetchVars, fr, dl, fileVars, db, req>>

----------------------------------------------------------------------------
(* The list of the stored movies: times, groupMoviesByYearMonth            *)
(*                                                                         *)
(* A time.Time is a count of instants from the beginning of the year 0,    *)
(* InstantsPerMonth instants to a month and twelve months to a year.       *)

InstantsPerMonth == 2

Instant(year, month, k) == (year * 12 + (month - 1)) * InstantsPerMonth + k

\* t.Year() and t.Month()
YearOf(t)  == t \div (12 * InstantsPerMonth)
MonthOf(t) == ((t \div InstantsPerMonth) % 12) + 1

DigitChar(d) == <<"0", "1", "2", "3", "4", "5", "6", "7", "8", "9">>[d + 1]

\* the decimal digits of a natural number
RECURSIVE Itoa(_)
Itoa(n) == IF n < 10 THEN <<DigitChar(n)>> ELSE Append(Itoa(n \div 10), DigitChar(n % 10))

RECURSIVE Zeros(_)
Zeros(n) == IF n <= 0 THEN <<>> ELSE <<"0">> \o Zeros(n - 1)

\* appendInt(b, x, width) of package time for x >= 0: the digits of x with
\* zeros in front up to the width, and all the digits of a longer number
AppendInt(x, width) == Zeros(width - Len(Itoa(x))) \o Itoa(x)

\* Format2006 without the zeros in front
Format2006_Unpadded(t) == Itoa(YearOf(t))

\* t.Format("2006") and t.Format("01")
Format2006(t) == AppendInt(YearOf(t), 4)
Format01(t)   == AppendInt(MonthOf(t), 2)

\* a < b for Go strings of digits: the comparison of the bytes from the left,
\* a proper prefix being the smaller
RECURSIVE StringLess(_, _)
StringLess(a, b) ==
    IF b = <<>> THEN FALSE
    ELSE IF a = <<>> THEN TRUE
    ELSE IF a[1] = b[1] THEN StringLess(Tail(a), Tail(b))
    ELSE DigitValue(a[1]) < DigitValue(b[1])

\* sort.Sort(sort.Reverse(sort.StringSlice(keys))) of the keys of a map, which
\* are distinct: the keys from the greatest to the smallest
RECURSIVE SortReverse(_)
SortReverse(keys) ==
    IF keys = {} THEN <<>>
    ELSE LET x == CHOOSE k \in keys : \A y \in keys \ {k} : StringLess(y, k)
         IN <<x>> \o SortReverse(keys \ {x})

RECURSIVE Flatten(_)
Flatten(seqs) == IF seqs = <<>> THEN <<>> ELSE Head(seqs) \o Flatten(Tail(seqs))

\* groupMap[year][month] after the first loop: the movies of that year and
\* month in the order of the appends
GroupMapAt(movies, year, month) ==
    SelectSeq(movies, LAMBDA m : Format2006(m.WatchedAt) = year /\ Format01(m.WatchedAt) = month)

groupMoviesByYearMonth(movies) ==
    LET years == SortReverse({Format2006(movies[i].WatchedAt) : i \in 1..Len(movies)})
        MonthsOf(year) ==
            SortReverse({Format01(movies[i].WatchedAt) :
                            i \in {j \in 1..Len(movies) : Format2006(movies[j].WatchedAt) = year}})
        GroupsOf(year) ==
            LET months == MonthsOf(year)
            IN [k \in 1..Len(months) |->
                    [Year |-> year, Month |-> months[k],
                     Movies |-> GroupMapAt(movies, year, months[k])]]
    IN Flatten([y \in 1..Len(years) |-> GroupsOf(years[y])])

\* the activation of a handler of the list: the request (method, id), what
\* db.First found (the primary key, 0 for an error), whether db.Save wrote,
\* the response, the table as it was when the request arrived, the
\* arguments and the result of groupMoviesByYearMonth, and the results of
\* formatRating for the movies of the page
ViewIdle ==
    [pc |-> "idle", method |-> "", id |-> <<>>, found |-> 0, saved |-> FALSE,
     resp |-> "", before |-> <<>>, movies |-> <<>>, groups |-> <<>>, stars |-> <<>>]

\* the call of groupMoviesByYearMonth with the movies of the activation
Group ==
    /\ view.pc = "call"
    /\ view' = [view EXCEPT !.pc = "ret", !.groups = groupMoviesByYearMonth(view.movies)]
    /\ UNCHANGED <<jav, parseVars, fetchVars, fr, dl, fileVars, db, req>>

----------------------------------------------------------------------------
(* formatRating, indexHandler *)

\* the glyphs of the star line: the black star, and the white star that
\* stands for a half star as well as for an empty one
sStarFull  == "full"
sStarEmpty == "empty"
sNoRatingText == <<"no rating">>

\* int(x) of a float64 given as the quotient a / b, b > 0: toward zero
Trunc(a, b) == IF a >= 0 THEN a \div b ELSE -((-a) \div b)

RECURSIVE RepeatN(_, _)
RepeatN(s, count) == IF count <= 0 THEN <<>> ELSE <<s>> \o RepeatN(s, count - 1)

\* fmt.Sprintf(" %.1f", rating) for a rating in tenths
SprintRating(rating) ==
    LET a == IF rating < 0 THEN -rating ELSE rating
    IN <<" ">> \o (IF rating < 0 THEN <<"-">> ELSE <<>>)
       \o Itoa(a \div 10) \o <<".">> \o <<DigitChar(a % 10)>>

Formatted(text) == [kind |-> "text", text |-> text]
\* strings.Repeat with a negative count panics
FormatPanic == [kind |-> "panic", text |-> <<>>]

\* EmptyStars with the count kept from falling below zero
EmptyStars_Clamped(fullStars, halfStar) ==
    LET n == 5 - fullStars - (IF halfStar THEN 1 ELSE 0)
    IN IF n < 0 THEN 0 ELSE n

\* emptyStars := 5 - fullStars, less one for a half star
EmptyStars(fullStars, halfStar) == 5 - fullStars - (IF halfStar THEN 1 ELSE 0)

\* formatRating for a rating in tenths
formatRating(rating) ==
    IF rating = 0 THEN Formatted(sNoRatingText)
    ELSE LET fullStars  == Trunc(rating, 20)
             halfStar   == rating - 20 * fullStars >= 10
             emptyStars == EmptyStars(fullStars, halfStar)
         IN IF fullStars < 0 \/ emptyStars < 0 THEN FormatPanic
            ELSE Formatted(RepeatN(sStarFull, fullStars)
                           \o (IF halfStar THEN <<sStarEmpty>> ELSE <<>>)
                           \o RepeatN(sStarEmpty, emptyStars)
                           \o SprintRating(rating))

RespIndexFail  == "500 Failed to fetch movies"
RespPage       == "200 index.html"
RespPageBroken == "200 index.html, cut off by the error of the template"

\* the results of Order("watched_at DESC").Find for the rows: every order of
\* the rows in which no row stands before one that was watched later
OrderDesc(rows) ==
    LET n == Len(rows)
    IN {[i \in 1..n |-> rows[p[i]]] :
          p \in {q \in [1..n -> 1..n] :
                    /\ \A i, j \in 1..n : i # j => q[i] # q[j]
                    /\ \A i, j \in 1..n : i < j => rows[q[i]].WatchedAt >= rows[q[j]].WatchedAt}}

\* the handler of the page: the query, the grouping, and the template, which
\* calls formatRating for every movie of every group; a panic of a template
\* function ends ExecuteTemplate with an error, which is logged
indexHandler(method, favoritesOnly) ==
    LET q == [ViewIdle EXCEPT !.pc = "index", !.method = method, !.before = db]
        rows == SelectSeq(db, LAMBDA m : ~favoritesOnly \/ m.IsFavorite)
    IN /\ view.pc = "idle"
       /\ \A r \in Reqs : req[r].pc \in {"idle", "done"}
       /\ IF method # "GET"
          THEN view' = [q EXCEPT !.resp = RespMethod]
          ELSE \/ view' = [q EXCEPT !.resp = RespIndexFail]
               \/ \E movies \in OrderDesc(rows) :
                     LET stars == [i \in 1..Len(movies) |-> formatRating(movies[i].Rating)]
                     IN view' = [q EXCEPT
                                   !.movies = movies,
                                   !.groups = groupMoviesByYearMonth(movies),
                                   !.stars = stars,
                                   !.resp = IF \E i \in 1..Len(movies) : stars[i] = FormatPanic
                                            THEN RespPageBroken ELSE RespPage]
       /\ UNCHANGED <<jav, parseVars, fetchVars, fr, dl, fileVars, db, req>>

----------------------------------------------------------------------------
(* toggleMovieFavoriteHandler *)

RespBadID    == "error: invalid movie id"
RespNoMovie  == "error: movie does not exist"
RespFavOn    == "success: added to the favorites"
RespFavOff   == "success: removed from the favorites"

\* strconv.Atoi(s) succeeds, for the texts without a sign
IsNumber(s) == s # <<>> /\ \A i \in 1..Len(s) : s[i] \in Digits

\* texts of SQL conditions: 1=1 and the name of the column is_favorite
sAlways     == <<"1", "=", "1">>
sIsFavorite == <<"i", "s", "_", "f", "a", "v", "o", "r", "i", "t", "e">>

\* the value of a WHERE text on a row: [ok |-> the text is a condition the
\* database evaluates, v |-> its value]
Where(text, row) ==
    IF text = sAlways THEN [ok |-> TRUE, v |-> TRUE]
    ELSE IF text = sIsFavorite THEN [ok |-> TRUE, v |-> row.IsFavorite]
    ELSE [ok |-> FALSE, v |-> FALSE]

\* First with every text taken for a primary key
First_KeyOnly(table, cond) ==
    LET is == {i \in 1..Len(table) : IsNumber(cond) /\ table[i].ID = DecimalValue(cond)}
    IN IF is = {} THEN 0 ELSE CHOOSE i \in is : TRUE

\* db.First(&movie, cond) with a string: gorm takes a text that Atoi accepts
\* for the primary key, and any other text for the condition itself
\* (WHERE <text> ORDER BY id LIMIT 1).  The index of the row that is found,
\* 0 for ErrRecordNotFound and for an error of the database.
First(table, cond) ==
    LET is == IF IsNumber(cond)
              THEN {i \in 1..Len(table) : table[i].ID = DecimalValue(cond)}
              ELSE {i \in 1..Len(table) : Where(cond, table[i]).ok /\ Where(cond, table[i]).v}
    IN IF is = {} THEN 0
       ELSE CHOOSE i \in is : \A j \in is : table[i].ID <= table[j].ID

\* movie.IsFavorite = !movie.IsFavorite
Toggled(movie) == [movie EXCEPT !.IsFavorite = ~movie.IsFavorite]

\* the handler from the request to the redirect; db.Save writes every column of
\* the row, and its error is not looked at
toggleMovieFavoriteHandler(method, movieID) ==
    LET q == [ViewIdle EXCEPT !.pc = "toggle", !.method = method, !.id = movieID,
                              !.before = db]
        i == First(db, movieID)
    IN /\ view.pc \in {"idle", "toggle"}
       /\ IF method # "POST"
          THEN view' = [q EXCEPT !.resp = RespMethod] /\ UNCHANGED db
          ELSE IF movieID = <<>>
          THEN view' = [q EXCEPT !.resp = RespBadID] /\ UNCHANGED db
          ELSE IF i = 0
          THEN view' = [q EXCEPT !.resp = RespNoMovie] /\ UNCHANGED db
          ELSE \E saved \in BOOLEAN :
                  /\ db' = IF saved THEN Saved(db, Toggled(db[i])) ELSE db
                  /\ view' = [q EXCEPT !.found = db[i].ID, !.saved = saved,
                                       !.resp = IF Toggled(db[i]).IsFavorite
                                                THEN RespFavOn ELSE RespFavOff]
       /\ UNCHANGED <<jav, parseVars, fetchVars, fr, dl, fileVars, req>>

----------------------------------------------------------------------------
(* Enumerated responses of the metadata API *)

sX == <<"X">>
sJson == <<"j", "s", "o", "n">>
sA == <<"a">>
sB == <<"b">>
sDate1 == <<"2", "0", "2", "0">>
sDate2 == <<"2", "0", "2", "1">>
sCover == <<"h", "t", "t", "p", "s", ":", "/", "/", "i", "m", "g", "/", "p", ".", "j", "p", "g">>

TitleChars == {"X", "L", " "}

OptStrings(S) == {Absent} \cup {Member(x) : x \in S}

StringLists == {Absent, Member(<<>>), Member(<<sA>>), Member(<<sA, sB>>)}

RatingMembers == {NoRating, RatingNoValue, RatingOf(94)}

\* the members that are copied unchanged, absent together or present together
GameRest == {[release_date |-> Absent, intro |-> Absent, pic |-> Absent,
              developers |-> Absent, publishers |-> Absent],
             [release_date |-> Member(sDate1), intro |-> Member(sA), pic |-> Member(sCover),
              developers |-> Member(<<sA>>), publishers |-> Member(<<>>)],
             [release_date |-> Member(<<>>), intro |-> Member(sB), pic |-> Absent,
              developers |-> Member(<<sA, sB>>), publishers |-> Member(<<sB, sA>>)]}

GameObjects ==
    {[title |-> t, cn_name |-> c, rating |-> g,
      release_date |-> x.release_date, intro |-> x.intro, pic |-> x.pic,
      developers |-> x.developers, publishers |-> x.publishers] :
        t \in OptStrings(SeqsUpTo(TitleChars, MaxTitleLen)),
        c \in OptStrings(SeqsUpTo(TitleChars, 1)),
        g \in RatingMembers, x \in GameRest}

BookObjects ==
    {[title |-> t, book_subtitle |-> t, pubdate |-> d, author |-> a, press |-> p,
      intro |-> c, pic |-> c, rating |-> g] :
        t \in OptStrings({sX}),
        d \in {Absent, Member(<<>>), Member(<<sDate1>>), Member(<<sDate1, sDate2>>)},
        a \in StringLists, p \in StringLists,
        c \in OptStrings({sCover}), g \in RatingMembers}

DirectorLists ==
    {Absent, Member(<<>>), Member(<<[name |-> Member(sA)]>>),
     Member(<<[name |-> Member(sA)], [name |-> Absent], [name |-> Member(sB)]>>)}

CardSubtitles ==
    OptStrings({<<>>, sA, sA \o sCardSep \o sB, sA \o sSlash \o sB,
                sA \o sCardSep \o sB \o sCardSep \o sX, sA \o sCardSep})

MovieObjects ==
    {[title |-> t, original_title |-> t, pubdate |-> d, directors |-> ds,
      card_subtitle |-> cs, intro |-> c, pic |-> c, rating |-> g] :
        t \in OptStrings({sX}),
        d \in {Absent, Member(<<>>), Member(<<sDate1, sDate2>>)},
        ds \in DirectorLists, cs \in CardSubtitles,
        c \in OptStrings({sCover}), g \in RatingMembers}

Objects(st) ==
    IF st = "book" THEN BookObjects ELSE IF st = "game" THEN GameObjects ELSE MovieObjects

AnObject(st) == CHOOSE o \in Objects(st) : \A m \in DOMAIN o : ~o[m].p

\* the bodies of 200 responses: objects, a broken text, an object with a
\* member of the wrong type
Bodies(st) ==
    {[json |-> "object", obj |-> o] : o \in Objects(st)}
    \cup {[json |-> j, obj |-> AnObject(st)] : j \in {"malformed", "mismatch"}}

ErrorBody(st) == [json |-> "malformed", obj |-> AnObject(st)]

ApiStatuses == {204, 404}

ApiOutcomes(st) ==
    {TransportFailure(e) : e \in TransportErrs}
    \cup {Response(StatusOK, sJson, b, Whole) : b \in Bodies(st)}
    \cup {Response(c, sJson, ErrorBody(st), Whole) : c \in ApiStatuses}
    \cup {Response(StatusOK, sJson, ErrorBody(st), 0)}

FetchTypes == {"book", "movie", "tv", "game"}
FetchIds   == {<<"4", "2">>, <<"4", "%">>}

Unused == [id |-> <<>>, err |-> "unused"]

ParseUnused ==
    /\ externalURL = <<>>
    /\ subjectType = ""
    /\ parsed = Unused

\* every activation idle, the image directory and the table empty
Quiet ==
    /\ api = [r \in Reqs |-> ApiIdle]
    /\ mi = [r \in Reqs |-> MiIdle]
    /\ fr = [r \in Reqs |-> FrIdle]
    /\ dl = [r \in Reqs |-> DlIdle]
    /\ links = NoFiles
    /\ inodes = NoFiles
    /\ db = <<>>
    /\ req = [r \in Reqs |-> ReqIdle]
    /\ jav = JavIdle
    /\ view = ViewIdle

FetchInit ==
    /\ ParseUnused
    /\ Quiet

FetchNext ==
    \/ \E st \in FetchTypes, id \in FetchIds : FetchCall(Solo, st, id)
    \/ ApiAttempt(Solo, ApiOutcomes(mi[Solo].st))
    \/ ApiExhaust(Solo)
    \/ FetchReturn(Solo)

SpecFetch == FetchInit /\ [][FetchNext]_vars

----------------------------------------------------------------------------
(* downloadImage called again and again by one caller *)

\* the ways a body can fail to arrive: after any number of its bytes
Cuts(body) == 0..Len(body)

sImgA == <<"a", "b">>
sImgB == <<"c">>
sJpeg == <<"j", "p", "e", "g">>

DlBodies == {sImgA, sImgB}
DlCTypes == {sJpeg, sPng, <<>>}
DlStatuses == {204, 404}

DlOutcomes ==
    {TransportFailure(e) : e \in TransportErrs}
    \cup {Response(c, <<>>, <<>>, Whole) : c \in DlStatuses}
    \cup {Response(StatusOK, t, b, Whole) : t \in DlCTypes, b \in DlBodies}
    \cup UNION {{Response(StatusOK, t, b, k) : k \in Cuts(b)} : t \in DlCTypes, b \in DlBodies}

DlUrls == {<<>>, sCover, sCover \o sPercent}
DlIds  == {<<"4", "2">>}

DlInit ==
    /\ ParseUnused
    /\ Quiet

DlNext ==
    \/ \E u \in DlUrls, id \in DlIds : DlCall(Solo, u, id)
    \/ DlAttempt(Solo, DlOutcomes)
    \/ DlCreate(Solo)
    \/ DlCopy(Solo)
    \/ DlRemove(Solo)

SpecDL == DlInit /\ [][DlNext]_vars

----------------------------------------------------------------------------
(* fetchRating applied to enumerated pages *)

sHtml == <<"h", "t", "m", "l">>

NumberTexts == {<<"9", ".", "7">>, <<"0">>, <<"1", "2">>, <<"8", ".">>}
OtherTexts  == {<<>>, <<"N", "/", "A">>, <<".", "5">>}

Elements ==
    {Element(t, c, p, x, sStrong) :
        t \in {sStrong, sSpan},
        c \in OptStrings({<<"l", "l", " ">> \o sRatingNum, sRating, sX}),
        p \in OptStrings({sAverage}),
        x \in {<<"9", ".", "7">>, <<"0">>, <<"N", "/", "A">>}}
    \cup {Element(sStrong, Member(sRating), Absent, x, sStrong) : x \in NumberTexts \cup OtherTexts}
    \cup {Element(sStrong, Member(sRating), Member(sAverage), <<"9", ".", "7">>, sSpan)}

Pages == SeqsUpTo(Elements, 1)
         \cup {<<e, Element(sSpan, Absent, Member(sAverage), <<"6", ".", "5">>, sStrong)>> :
                  e \in Elements}

FrStatuses == {204, 403}

FrOutcomes ==
    {TransportFailure(e) : e \in TransportErrs}
    \cup {Response(c, sHtml, b, Whole) : c \in FrStatuses \cup {StatusOK}, b \in Pages}
    \cup UNION {{Response(StatusOK, sHtml, b, k) : k \in Cuts(b)} : b \in Pages}

FrUrls == {MkUrl(sHttps, sMovie \o sDouban, sSubject, <<"4", "2">>, sSlash),
           MkUrl(sHttps, sMovie \o sDouban, sSubject, sPercent, sSlash)}

FrInit ==
    /\ ParseUnused
    /\ Quiet

FrNext ==
    \/ \E u \in FrUrls : FrCall(Solo, u)
    \/ FrGet(Solo, FrOutcomes)

SpecRating == FrInit /\ [][FrNext]_vars

----------------------------------------------------------------------------
(* The three functions that ask the network side by side: one caller that  *)
(* fetches metadata, downloads images or reads the rating of a page         *)

RetryInit ==
    /\ ParseUnused
    /\ Quiet

RetryNext ==
    \/ /\ dl[Solo].pc = "idle" /\ fr[Solo].pc = "idle"
       /\ \E st \in FetchTypes, id \in FetchIds : FetchCall(Solo, st, id)
    \/ ApiAttempt(Solo, ApiOutcomes(mi[Solo].st))
    \/ ApiExhaust(Solo)
    \/ FetchReturn(Solo)
    \/ /\ mi[Solo].pc = "idle" /\ fr[Solo].pc = "idle"
       /\ \E u \in DlUrls, id \in DlIds : DlCall(Solo, u, id)
    \/ DlAttempt(Solo, DlOutcomes)
    \/ DlCreate(Solo)
    \/ DlCopy(Solo)
    \/ DlRemove(Solo)
    \/ /\ mi[Solo].pc = "idle" /\ dl[Solo].pc = "idle"
       /\ \E u \in FrUrls : FrCall(Solo, u)
    \/ FrGet(Solo, FrOutcomes)

SpecRetry == RetryInit /\ [][RetryNext]_vars

----------------------------------------------------------------------------
(* addMovieHandler serving one request after the other *)

AddMethods == {"GET", "POST"}
AddUrls == {<<>>,
            MkUrl(sHttps, sMovie \o sDouban, sSubject, <<"4">>, sSlash),
            MkUrl(sHttps, sBook \o sDouban, sSubject, <<"4">>, sSlash),
            MkUrl(sHttp, sMovie \o sDouban, sSubject, <<"4">>, sSlash)}

\* the form value watched_at, and the day the request arrives
AddDates == {[ok |-> FALSE, t |-> 0], [ok |-> TRUE, t |-> 1]}
AddNow == Cardinality(AddDates)

\* objects with or without a rating, with or without a picture
AddObjects(st) ==
    {o \in Objects(st) :
        /\ o.title = Member(sX)
        /\ o.intro = o.pic
        /\ o.rating \in {NoRating, RatingOf(94)}
        /\ o.pubdate = Member(<<sDate1, sDate2>>)
        /\ IF st = "book"
           THEN o.author = Member(<<sA>>) /\ o.press = Absent
           ELSE o.directors = Member(<<[name |-> Member(sA)]>>) /\ o.card_subtitle = Absent}

AddApiOutcomes(st) ==
    {TransportFailure(CHOOSE e \in TransportErrs : TRUE)}
    \cup {Response(StatusOK, sJson, [json |-> "object", obj |-> o], Whole) : o \in AddObjects(st)}
    \cup {Response(StatusOK, sJson, ErrorBody(st), Whole)}

AddFrOutcomes ==
    {TransportFailure(CHOOSE e \in TransportErrs : TRUE)}
    \cup {Response(StatusOK, sHtml,
                   <<Element(sStrong, Member(sRating), Absent, x, sStrong)>>, Whole) :
            x \in {<<"9", ".", "7">>, <<"1", "2">>, <<"N", "/", "A">>}}

AddDlOutcomes ==
    {TransportFailure(CHOOSE e \in TransportErrs : TRUE)}
    \cup {Response(StatusOK, sPng, sImgB, k) : k \in {Whole} \cup Cuts(sImgB)}

AddInit ==
    /\ ParseUnused
    /\ Quiet

\* the arrival of a request
AddRequest ==
    \E m \in AddMethods, u \in AddUrls, w \in AddDates : AddStart(Solo, m, u, w, AddNow)

\* the steps of the handler after the arrival of the request
AddSteps ==
    \/ /\ req[Solo].pc = "fetch"
       /\ ApiAttempt(Solo, AddApiOutcomes(mi[Solo].st))
    \/ /\ req[Solo].pc = "fetch"
       /\ ApiExhaust(Solo)
    \/ /\ req[Solo].pc = "fetch"
       /\ FetchReturn(Solo)
    \/ AddLookup(Solo)
    \/ AddUpdate(Solo)
    \/ AddRating(Solo)
    \/ /\ req[Solo].pc = "rating"
       /\ FrGet(Solo, AddFrOutcomes)
    \/ AddRated(Solo)
    \/ AddImage(Solo)
    \/ /\ req[Solo].pc \in {"update", "download"}
       /\ DlAttempt(Solo, AddDlOutcomes)
    \/ /\ req[Solo].pc \in {"update", "download"}
       /\ DlCreate(Solo)
    \/ /\ req[Solo].pc \in {"update", "download"}
       /\ DlCopy(Solo)
    \/ /\ req[Solo].pc \in {"update", "download"}
       /\ DlRemove(Solo)
    \/ AddDownloaded(Solo)
    \/ AddCreate(Solo)

AddNext == AddRequest \/ AddSteps

SpecAdd == AddInit /\ [][AddNext]_vars

\* Every call of the network ends within the Timeout of its http.Client, every
\* time.Sleep ends, and the handler is straight-line code between them: a step
\* of the handler that can be taken is taken.  Nothing is assumed about the
\* arrival of requests.
SpecAddLive == SpecAdd /\ WF_vars(AddSteps)

----------------------------------------------------------------------------
(* addMovieHandler serving one request after the other, and then the page *)

PageNext ==
    \/ /\ view.pc = "idle"
       /\ AddNext
    \/ \E method \in {"GET", "POST"}, favoritesOnly \in BOOLEAN :
          indexHandler(method, favoritesOnly)

SpecPage == AddInit /\ [][PageNext]_vars

----------------------------------------------------------------------------
(* addMovieHandler serving two requests at the same time: each of the two  *)
(* goroutines serves one request, and their steps interleave                *)

ConcUrls == {MkUrl(sHttps, sMovie \o sDouban, sSubject, <<"4">>, sSlash)}
ConcDates == {[ok |-> FALSE, t |-> 0]}

\* an object with a rating and no picture, and one with a picture and no rating
ConcObjects(st) ==
    {o \in AddObjects(st) : (o.rating = NoRating) <=> (o.pic # Absent)}

ConcApiOutcomes(st) ==
    {TransportFailure(CHOOSE e \in TransportErrs : TRUE)}
    \cup {Response(StatusOK, sJson, [json |-> "object", obj |-> o], Whole) : o \in ConcObjects(st)}

ConcFrOutcomes ==
    {Response(StatusOK, sHtml,
              <<Element(sStrong, Member(sRating), Absent, <<"9", ".", "7">>, sStrong)>>, Whole)}

ConcDlOutcomes ==
    {TransportFailure(CHOOSE e \in TransportErrs : TRUE)}
    \cup {Response(StatusOK, sPng, sImgB, k) : k \in {Whole, 0}}

ConcInit ==
    /\ ParseUnused
    /\ Quiet

ConcNext ==
    \E r \in Reqs :
        \/ /\ req[r].pc = "idle"
           /\ \E u \in ConcUrls, w \in ConcDates : AddStart(r, "POST", u, w, AddNow)
        \/ ApiAttempt(r, ConcApiOutcomes(mi[r].st))
        \/ ApiExhaust(r)
        \/ FetchReturn(r)
        \/ AddLookup(r)
        \/ AddUpdate(r)
        \/ AddRating(r)
        \/ FrGet(r, ConcFrOutcomes)
        \/ AddRated(r)
        \/ AddImage(r)
        \/ DlAttempt(r, ConcDlOutcomes)
        \/ DlCreate(r)
        \/ DlCopy(r)
        \/ DlRemove(r)
        \/ AddDownloaded(r)
        \/ AddCreate(r)

SpecConc == ConcInit /\ [][ConcNext]_vars

----------------------------------------------------------------------------
(* fetchJavInfoFromPython applied to enumerated outputs of the subprocess *)

sNoise == <<"w", ":", " ">>
sNl == <<"\n">>

\* an output with the text between the markers
Framed(pre, ws, text, post) == pre \o sStartMarker \o ws \o text \o ws \o sEndMarker \o post

JavOutputs ==
    {Framed(<<>>, sNl, <<JsonText(v)>>, sNl) : v \in JavValues}
    \cup {Framed(pre, ws, <<JsonText(JObject(JavFull))>>, post) :
             pre \in {<<>>, sNoise}, ws \in {<<>>, sNl}, post \in {<<>>, sNoise}}
    \cup {Framed(sNoise, sNl, text, sNl) :
             text \in {<<>>, sNoise, <<JsonText(JObject(JavFull)), JsonText(JNull)>>}}
    \cup {<<>>, sNoise,
          sStartMarker \o <<JsonText(JObject(JavFull))>>,
          <<JsonText(JObject(JavFull))>> \o sEndMarker,
          sEndMarker \o Framed(sNoise, sNl, <<JsonText(JObject(JavFull))>>, sNl),
          Sub(sStartMarker, 1, Len(sStartMarker) - 2) \o sEndMarker}

JavNumbers == {<<"A", "-", "1">>}

JavInit ==
    /\ ParseUnused
    /\ Quiet

JavNext ==
    \/ \E n \in JavNumbers : JavCall(n)
    \/ JavRun(JavOutputs)

SpecJav == JavInit /\ [][JavNext]_vars

----------------------------------------------------------------------------
(* groupMoviesByYearMonth applied to one enumerated list of movies *)

MaxMovies == 3

GroupYears  == {999, 2024}
GroupMonths == {2, 10}
GroupTimes  == {Instant(y, m, k) : y \in GroupYears, m \in GroupMonths,
                                   k \in 0..(InstantsPerMonth - 1)}

\* the lists of at most MaxMovies movies, the i-th one with the primary key i
GroupInputs ==
    {[i \in 1..Len(ts) |-> [NoRow EXCEPT !.ID = i, !.WatchedAt = ts[i]]] :
        ts \in SeqsUpTo(GroupTimes, MaxMovies)}

GroupInit ==
    /\ ParseUnused
    /\ api = [r \in Reqs |-> ApiIdle]
    /\ mi = [r \in Reqs |-> MiIdle]
    /\ fr = [r \in Reqs |-> FrIdle]
    /\ dl = [r \in Reqs |-> DlIdle]
    /\ links = NoFiles
    /\ inodes = NoFiles
    /\ db = <<>>
    /\ req = [r \in Reqs |-> ReqIdle]
    /\ jav = JavIdle
    /\ \E movies \in GroupInputs : view = [ViewIdle EXCEPT !.pc = "call", !.movies = movies]

GroupNext == Group

SpecGroup == GroupInit /\ [][GroupNext]_vars

----------------------------------------------------------------------------
(* toggleMovieFavoriteHandler serving one request after the other *)

MaxRows == 2

\* the tables of at most MaxRows movies: primary keys that grow, any
\* favorites, the items 4, 5, ..
ListKeys == 1..(MaxRows + 1)

ListRows ==
    {[NoRow EXCEPT !.ID = k, !.DoubanID = Itoa(3 + k), !.IsFavorite = f] :
        k \in ListKeys, f \in BOOLEAN}

ListTables ==
    {t \in SeqsUpTo(ListRows, MaxRows) : \A i, j \in 1..Len(t) : i < j => t[i].ID < t[j].ID}

\* the form value id: missing, primary keys, a number that is no key,
\* a condition, and a text that is neither
ListIds == {<<>>} \cup {Itoa(k) : k \in ListKeys} \cup {<<"9">>, sAlways, <<"x">>}

ListInit ==
    /\ ParseUnused
    /\ api = [r \in Reqs |-> ApiIdle]
    /\ mi = [r \in Reqs |-> MiIdle]
    /\ fr = [r \in Reqs |-> FrIdle]
    /\ dl = [r \in Reqs |-> DlIdle]
    /\ links = NoFiles
    /\ inodes = NoFiles
    /\ db \in ListTables
    /\ req = [r \in Reqs |-> ReqIdle]
    /\ jav = JavIdle
    /\ view = ViewIdle

ListNext ==
    \E method \in {"GET", "POST"}, movieID \in ListIds :
        toggleMovieFavoriteHandler(method, movieID)

SpecList == ListInit /\ [][ListNext]_vars

----------------------------------------------------------------------------
(* downloadImage called by two requests at the same time for one item *)

RaceId   == <<"4", "2">>
RacePath == <<RaceId, Ext(sPng)>>

\* the file an earlier download of the item left at the path
RaceOld == sImgA \o sImgB

RaceOutcomes ==
    {Response(StatusOK, sPng, b, Whole) : b \in DlBodies}
    \cup {Response(StatusOK, sPng, sImgA, k) : k \in Cuts(sImgA)}

RaceInit ==
    /\ ParseUnused
    /\ api = [r \in Reqs |-> ApiIdle]
    /\ mi = [r \in Reqs |-> MiIdle]
    /\ fr = [r \in Reqs |-> FrIdle]
    /\ dl = [r \in Reqs |-> DlIdle]
    /\ \/ links = NoFiles /\ inodes = NoFiles
       \/ links = [p \in {RacePath} |-> 1] /\ inodes = [n \in {1} |-> RaceOld]
    /\ db = <<>>
    /\ req = [r \in Reqs |-> ReqIdle]
    /\ jav = JavIdle
    /\ view = ViewIdle

RaceNext ==
    \E r \in Reqs :
        \/ /\ dl[r].pc = "idle"
           /\ DlCall(r, sCover, RaceId)
        \/ DlAttempt(r, RaceOutcomes)
        \/ DlCreate(r)
        \/ DlCopy(r)
        \/ DlRemove(r)

SpecRace == RaceInit /\ [][RaceNext]_vars

----------------------------------------------------------------------------
(* ParseDoubanURL applied to one enumerated input *)

NotCalled == [id |-> <<>>, err |-> "not called"]

ParseInit ==
    /\ externalURL \in Urls
    /\ subjectType \in SubjectTypes
    /\ parsed = NotCalled
    /\ Quiet

Parse ==
    /\ parsed = NotCalled
    /\ parsed' = ParseDoubanURL(externalURL, subjectType)
    /\ UNCHANGED <<externalURL, subjectType, fetchVars, fr, dl, fileVars, db, req, jav, view>>

SpecParse == ParseInit /\ [][Parse]_vars

----------------------------------------------------------------------------
(* C1 *)

\* the host the claim assigns to each category
C1_HostOf(st) ==
    IF st = "book" THEN sBook \o sDouban
    ELSE IF st = "game" THEN sWww \o sDouban
    ELSE sMovie \o sDouban

C1_Accepted == {sWww \o sDouban, sBook \o sDouban, sMovie \o sDouban}

\* C1: for every category in {book, movie, tv, anime, game} and every URL
\* https://<host>/subject/<digits> with or without a trailing slash, the call
\* returns exactly the digit run and no error when <host> is the category's
\* host, and the host-mismatch error with no identifier when <host> is one of
\* the other accepted hosts.
C1_ParseSubjectUrl ==
    \A h \in C1_Accepted, id \in UrlIds, t \in {<<>>, sSlash} :
        ( /\ parsed # NotCalled
          /\ KnownType(subjectType)
          /\ id # <<>>
          /\ \A i \in 1..Len(id) : id[i] \in Digits
          /\ externalURL = MkUrl(sHttps, h, sSubject, id, t) )
        => IF h = C1_HostOf(subjectType)
           THEN parsed = [id |-> id, err |-> NoErr]
           ELSE parsed = [id |-> <<>>, err |-> ErrInvalidHost]

\* a two-digit identifier with a leading zero and a trailing slash, resolved
\* for the anime category
C1_Witness ==
    /\ externalURL = MkUrl(sHttps, sMovie \o sDouban, sSubject, <<"0", "7">>, sSlash)
    /\ subjectType = "anime"
    /\ parsed = [id |-> <<"0", "7">>, err |-> NoErr]

----------------------------------------------------------------------------
(* C3 *)

\* the failure of one answered GET, as the claim classifies it
C3_Failed(o) == o.kind = "transport" \/ o.status # 200 \/ o.cut # Whole

C3_ErrorOf(o) ==
    IF o.kind = "transport" THEN o.err
    ELSE IF o.status # 200 THEN <<"bad status", ToString(o.status)>>
    ELSE <<"unexpected EOF">>

\* C3: when requestAPI has returned and every GET it made failed (transport
\* error, bad status or body-read error), it made exactly 2 GETs, returned no
\* body, and returned the exhaustion error carrying the second attempt's error.
C3_ExhaustsAfterTwo ==
    \A r \in Reqs :
        ( /\ api[r].pc = "ret"
          /\ api[r].log # <<>>
          /\ \A k \in 1..Len(api[r].log) : C3_Failed(api[r].log[k]) )
        => /\ Len(api[r].log) = 2
           /\ api[r].ret.body = <<>>
           /\ api[r].ret.err = <<"failed to fetch data after multiple attempts">>
                                   \o C3_ErrorOf(api[r].log[2])

\* a transport failure followed by a 404: the 404 is what the error carries
C3_Witness ==
    /\ api[Solo].pc = "ret"
    /\ Len(api[Solo].log) = 2
    /\ api[Solo].log[1].kind = "transport"
    /\ api[Solo].log[2].status = 404
    /\ api[Solo].ret.err = <<"failed to fetch data after multiple attempts", "bad status", "404">>

----------------------------------------------------------------------------
(* C8 *)

\* L occurs in T at position i
C8_OccursAt(T, L, i) ==
    /\ i \in 1..(Len(T) + 1)
    /\ i + Len(L) - 1 <= Len(T)
    /\ SubSeq(T, i, i + Len(L) - 1) = L

\* y is x without its leading and trailing white space
C8_IsTrimOf(y, x) ==
    \E i \in 1..(Len(x) + 1), j \in 0..Len(x) :
        /\ y = SubSeq(x, i, j)
        /\ \A k \in 1..(i - 1) : x[k] \in {" ", "\t", "\n"}
        /\ \A k \in (j + 1)..Len(x) : x[k] \in {" ", "\t", "\n"}
        /\ y # <<>> => y[1] \notin {" ", "\t", "\n"} /\ y[Len(y)] \notin {" ", "\t", "\n"}

\* the title pair the claim prescribes for primary title T and localized title L
C8_Prescribed(T, L, title, alt) ==
    IF \E i \in 1..(Len(T) + 1) : C8_OccursAt(T, L, i)
    THEN /\ title = L
         /\ \E i \in 1..(Len(T) + 1) :
               /\ C8_OccursAt(T, L, i)
               /\ \A j \in 1..(i - 1) : ~C8_OccursAt(T, L, j)
               /\ C8_IsTrimOf(alt, SubSeq(T, 1, i - 1) \o SubSeq(T, i + Len(L), Len(T)))
    ELSE title = T /\ alt = L

C8_Text(m) == IF m.p THEN m.v ELSE <<>>

\* C8: for a game response that FetchDoubanMediaInfo has projected, the title
\* is the localized title and the alternate title is the primary title with
\* the first occurrence of the localized title removed and the surrounding
\* white space trimmed when the primary title contains the localized title;
\* otherwise the title is the primary title and the alternate title is the
\* localized title.  Primary "X L" with localized "L" gives "L" and "X".
C8_GameTitleSplit ==
    \A r \in Reqs :
        (mi[r].pc = "ret" /\ mi[r].st = "game" /\ mi[r].ret.err = Nil)
        => LET o == api[r].ret.body.obj
               T == C8_Text(o.title)
               L == C8_Text(o.cn_name)
           IN /\ C8_Prescribed(T, L, mi[r].ret.info.Title, mi[r].ret.info.AltTitle)
              /\ (T = <<"X", " ", "L">> /\ L = <<"L">>)
                    => /\ mi[r].ret.info.Title = <<"L">>
                       /\ mi[r].ret.info.AltTitle = <<"X">>

\* the example of the claim, projected
C8_Witness ==
    /\ mi[Solo].pc = "ret" /\ mi[Solo].st = "game" /\ mi[Solo].ret.err = Nil
    /\ api[Solo].ret.body.obj.title = Member(<<"X", " ", "L">>)
    /\ api[Solo].ret.body.obj.cn_name = Member(<<"L">>)
    /\ mi[Solo].ret.info.Title = <<"L">>
    /\ mi[Solo].ret.info.AltTitle = <<"X">>

----------------------------------------------------------------------------
(* C9 *)

C9_Strings == {"Title", "AltTitle", "Creator", "Press", "PubDate", "Summary", "ImageURL"}

C9_IsText(x) == DOMAIN x = 1..Len(x) /\ \A i \in 1..Len(x) : x[i] \in STRING

\* the members that are copied as they are: canonical field, member name
C9_Copied(st) ==
    IF st = "book"
    THEN {<<"Title", "title">>, <<"AltTitle", "book_subtitle">>, <<"Summary", "intro">>,
          <<"ImageURL", "pic">>}
    ELSE IF st = "game"
    THEN {<<"PubDate", "release_date">>, <<"Summary", "intro">>, <<"ImageURL", "pic">>}
    ELSE {<<"Title", "title">>, <<"AltTitle", "original_title">>, <<"Summary", "intro">>,
          <<"ImageURL", "pic">>}

\* the members whose absence alone empties a canonical field
C9_Defaulted(st) ==
    C9_Copied(st) \cup
    ( IF st = "book"
      THEN {<<"Creator", "author">>, <<"Press", "press">>, <<"PubDate", "pubdate">>}
      ELSE IF st = "game"
      THEN {<<"Creator", "developers">>, <<"Press", "publishers">>}
      ELSE {<<"Creator", "directors">>, <<"Press", "card_subtitle">>,
            <<"PubDate", "pubdate">>} )

\* C9: for each of the three shapes, a successfully deserialized response is
\* projected into a record with exactly the eight canonical fields, each text
\* field a string and the rating a number; a copied field equals its member,
\* a field whose member is absent is the empty string, the publication date of
\* a book or movie is the first element of the date list, and the rating is
\* the nested value when the rating object is present and 0 when it is absent.
C9_ProjectionTotal ==
    \A r \in Reqs :
        (mi[r].pc = "ret" /\ mi[r].ret.err = Nil)
        => LET o == api[r].ret.body.obj
               info == mi[r].ret.info
               st == mi[r].st
           IN /\ DOMAIN info = C9_Strings \cup {"Rating"}
              /\ \A f \in C9_Strings : C9_IsText(info[f])
              /\ info.Rating \in Nat
              /\ \A c \in C9_Copied(st) : o[c[2]].p => info[c[1]] = o[c[2]].v
              /\ \A c \in C9_Defaulted(st) : ~o[c[2]].p => info[c[1]] = <<>>
              /\ (st # "game" /\ o.pubdate.p /\ o.pubdate.v # <<>>)
                    => info.PubDate = o.pubdate.v[1]
              /\ info.Rating = IF o.rating.p /\ o.rating.value.p THEN o.rating.value.v ELSE 0
              /\ ~o.rating.p => info.Rating = 0

\* a movie response with every member absent, projected to the empty record
C9_Witness ==
    /\ mi[Solo].pc = "ret" /\ mi[Solo].ret.err = Nil /\ mi[Solo].st = "movie"
    /\ \A m \in DOMAIN api[Solo].ret.body.obj : ~api[Solo].ret.body.obj[m].p
    /\ mi[Solo].ret.info = ZeroMediaSubject

----------------------------------------------------------------------------
(* C4 *)

\* the three failure classes of one attempt of downloadImage
C4_Class(o) ==
    IF o.kind = "transport" THEN "transport"
    ELSE IF o.status # 200 THEN "status"
    ELSE IF o.cut # Whole THEN "body"
    ELSE "none"

\* C4: an error caused by a transport failure, a bad status or a failure while
\* reading and saving the body is returned to the caller only after the 3rd
\* failed attempt (after an earlier failed attempt a further attempt is made).
C4_RetriesEveryClass ==
    \A r \in Reqs :
        ( /\ dl[r].pc = "ret"
          /\ dl[r].ret.err # Nil
          /\ dl[r].log # <<>>
          /\ C4_Class(dl[r].log[Len(dl[r].log)]) # "none"
          /\ dl[r].ret.err # ErrCreate )
        => Len(dl[r].log) = 3

----------------------------------------------------------------------------
(* C6 *)

\* the names in the image directory that belong to identifier id
C6_PathsOf(id) == {p \in DOMAIN links : p[1] = id}

\* C6 as claimed: whenever a call of downloadImage that made at least one
\* request has returned an error, no file exists at a destination path of its
\* identifier.
C6_NoFileAfterError ==
    \A r \in Reqs :
        (dl[r].pc = "ret" /\ dl[r].ret.err # Nil /\ dl[r].log # <<>>)
        => C6_PathsOf(dl[r].subjectID) = {}

\* C6 as amended: whenever a call of downloadImage has returned an error, no
\* partially written file exists at a destination path of its identifier: the
\* destination the failing call opened has no file, and every file present
\* holds a complete response body.
C6_NoPartialFileAfterError ==
    \A r \in Reqs :
        (dl[r].pc = "ret" /\ dl[r].ret.err # Nil)
        => /\ \A p \in C6_PathsOf(dl[r].subjectID) : inodes[links[p]] \in DlBodies
           /\ dl[r].ret.err = ErrSave => dl[r].localPath \notin DOMAIN links

\* a complete .png of an earlier call is replaced by a download that breaks
\* off after one byte: the call has returned the save error
C6_Witness ==
    /\ dl[Solo].pc = "ret"
    /\ dl[Solo].ret.err = ErrSave
    /\ dl[Solo].localPath = <<dl[Solo].subjectID, <<".", "p", "n", "g">>>>
    /\ dl[Solo].log[Len(dl[Solo].log)].cut = 1
    /\ <<dl[Solo].subjectID, <<".", "j", "p", "g">>>> \in DOMAIN links

----------------------------------------------------------------------------
(* C7 *)

\* C7: whenever downloadImage has returned a path without error, a file exists
\* at exactly that path and its content is the complete body of the response
\* of the attempt that succeeded, the last one.
C7_FileCompleteOnSuccess ==
    \A r \in Reqs :
        (dl[r].pc = "ret" /\ dl[r].ret.err = Nil)
        => LET o == dl[r].log[Len(dl[r].log)]
           IN /\ o.kind = "response" /\ o.status = 200 /\ o.cut = Whole
              /\ dl[r].ret.path \in DOMAIN links
              /\ inodes[links[dl[r].ret.path]] = o.body

\* the third attempt stores a one-byte body over an existing file
C7_Witness ==
    /\ dl[Solo].pc = "ret" /\ dl[Solo].ret.err = Nil
    /\ Len(dl[Solo].log) = 3
    /\ dl[Solo].ret.path = <<dl[Solo].subjectID, <<".", "j", "p", "g">>>>
    /\ inodes[links[dl[Solo].ret.path]] = <<"c">>
    /\ Cardinality(DOMAIN links) = 2

----------------------------------------------------------------------------
(* C10 *)

\* the element carries a number in a tagged position that one of the patterns
\* looks for, and the number is worth v tenths
C10_RatedElement(e, v) ==
    /\ e.close = sStrong
    /\ \/ e.class.p /\ Contains(e.class.v, sRating)
       \/ e.property.p /\ e.property.v = sAverage
    /\ IsNumberText(e.text)
    /\ ParseFloat(e.text).v = v

----------------------------------------------------------------------------
(* C5 *)

\* the GET was answered 200 and its body arrived completely
C5_Succeeded(o) == o.kind = "response" /\ o.status = 200 /\ o.cut = Whole

\* attempts 1..N-1 failed and attempt N, the last one made, succeeded
C5_SuccessOnLast(log) ==
    /\ log # <<>>
    /\ C5_Succeeded(log[Len(log)])
    /\ \A k \in 1..(Len(log) - 1) : ~C5_Succeeded(log[k])

\* C5: when the N-th attempt of requestAPI (N <= 2) succeeds after N-1 failed
\* attempts, the call has returned that attempt's body without error and made
\* no further attempt; when the N-th attempt of downloadImage (N <= 3)
\* succeeds after N-1 failed attempts and the file can be created, the call
\* returns without error, the file holds that attempt's bytes, and no further
\* attempt is made.  A call that returns without error made its only
\* successful attempt last.
C5_SuccessOnNth ==
    \A r \in Reqs :
        /\ (api[r].log # <<>> /\ C5_Succeeded(api[r].log[Len(api[r].log)]))
           => /\ api[r].pc = "ret"
              /\ api[r].ret = [body |-> api[r].log[Len(api[r].log)].body, err |-> Nil]
              /\ C5_SuccessOnLast(api[r].log)
              /\ Len(api[r].log) <= 2
        /\ (api[r].pc = "ret" /\ api[r].ret.err = Nil) => C5_SuccessOnLast(api[r].log)
        /\ (dl[r].log # <<>> /\ C5_Succeeded(dl[r].log[Len(dl[r].log)]))
           => /\ dl[r].pc \in {"create", "copy", "ret"}
              /\ C5_SuccessOnLast(dl[r].log)
              /\ Len(dl[r].log) <= 3
              /\ (dl[r].pc = "ret" /\ dl[r].ret.err # ErrCreate)
                 => /\ dl[r].ret.err = Nil
                    /\ dl[r].ret.path \in DOMAIN links
                    /\ inodes[links[dl[r].ret.path]] = dl[r].log[Len(dl[r].log)].body
        /\ (dl[r].pc = "ret" /\ dl[r].ret.err = Nil) => C5_SuccessOnLast(dl[r].log)

\* the download succeeded on its third attempt
C5_Witness ==
    /\ dl[Solo].pc = "ret" /\ dl[Solo].ret.err = Nil
    /\ Len(dl[Solo].log) = 3
    /\ inodes[links[dl[Solo].ret.path]] = <<"a", "b">>

\* the metadata fetch succeeded on its second attempt
C5_WitnessApi ==
    /\ api[Solo].pc = "ret" /\ api[Solo].ret.err = Nil
    /\ Len(api[Solo].log) = 2
    /\ api[Solo].ret.body.json = "object"

----------------------------------------------------------------------------
(* C2 *)

C2_Count(t, e) == Cardinality({i \in 1..Len(t) : t[i] = e})

\* ParseDoubanURL and FetchDoubanMediaInfo have returned without error
C2_Resolved(q) ==
    /\ C2_Count(q.trace, "FetchDoubanMediaInfo") = 1
    /\ q.pc # "fetch"
    /\ q.resp # RespFetchFail

\* every call of downloadImage comes after the return of fetchRating
C2_BackfillFirst(t) ==
    \A i \in 1..Len(t) :
        t[i] = "downloadImage" => \E j \in 1..(i - 1) : t[j] = "fetchRating returned"

\* the request has passed the place of the rating in the create branch
C2_PastRating(q) ==
    \/ q.pc \in {"image", "download", "create"}
    \/ q.pc = "done" /\ q.resp \in {RespAdded, RespSaveFail}

\* C2 as stated, for the requests whose database query did not fail: once
\* ParseDoubanURL and FetchDoubanMediaInfo have succeeded, a mapped rating of 0
\* means that fetchRating is called exactly once and has returned before any
\* call of downloadImage, and another mapped rating means that fetchRating is
\* never called.
C2_BackfillOnceBeforeImage ==
    \A r \in Reqs :
        LET q == req[r] IN
        (C2_Resolved(q) /\ q.lookup # "error") =>
            IF q.mediaInfo.Rating = 0
            THEN /\ C2_Count(q.trace, "fetchRating") <= 1
                 /\ C2_BackfillFirst(q.trace)
                 /\ q.pc = "done" => C2_Count(q.trace, "fetchRating returned") = 1
            ELSE C2_Count(q.trace, "fetchRating") = 0

\* C2, for the requests whose identifier is not yet stored: once ParseDoubanURL
\* and FetchDoubanMediaInfo have succeeded and the query has reported that no
\* record exists, a mapped rating of 0 means that fetchRating is called exactly
\* once and has returned before any call of downloadImage, and another mapped
\* rating means that fetchRating is never called; a request that finds a stored
\* record, or whose query fails, never calls fetchRating.
C2_BackfillOnceWhenNew ==
    \A r \in Reqs :
        LET q == req[r] IN
        C2_Resolved(q) =>
            IF q.lookup = "not found" /\ q.mediaInfo.Rating = 0
            THEN /\ C2_Count(q.trace, "fetchRating") <= 1
                 /\ C2_BackfillFirst(q.trace)
                 /\ C2_PastRating(q) => C2_Count(q.trace, "fetchRating returned") = 1
            ELSE C2_Count(q.trace, "fetchRating") = 0

\* a new item without a rating in the API answer has been added: the rating
\* was read from the page, then the picture was downloaded
C2_Witness ==
    /\ req[Solo].pc = "done"
    /\ req[Solo].resp = RespAdded
    /\ req[Solo].lookup = "not found"
    /\ req[Solo].mediaInfo.Rating = 0
    /\ req[Solo].rating = 97
    /\ req[Solo].trace = <<"ParseDoubanURL", "FetchDoubanMediaInfo", "fetchRating",
                           "fetchRating returned", "downloadImage",
                           "downloadImage returned">>
    /\ db # <<>>
    /\ db[Len(db)].Rating = 97

\* a stored item is added again, the API answer has no rating, and the picture
\* is downloaded without fetchRating having been called
C2_UpdateWithoutBackfill ==
    /\ req[Solo].pc = "done"
    /\ req[Solo].resp = RespUpdated
    /\ req[Solo].mediaInfo.Rating = 0
    /\ req[Solo].trace = <<"ParseDoubanURL", "FetchDoubanMediaInfo", "downloadImage",
                           "downloadImage returned">>

----------------------------------------------------------------------------
(* C11 *)

\* the URLs of the pattern, written out: https, one of the three hosts,
\* /subject/ or /game/, one digit or more, an optional final slash
C11_HostsOfMatch(u) ==
    {h \in C1_Accepted :
        \E k \in {sSubject, sGame}, id \in UrlIds, t \in {<<>>, sSlash} :
            /\ id # <<>>
            /\ \A i \in 1..Len(id) : id[i] \in Digits
            /\ u = MkUrl(sHttps, h, k, id, t)}

C11_Categories == {"book", "movie", "tv", "anime", "game"}

\* C11: the error of ParseDoubanURL is decided in a fixed order: a URL outside
\* the pattern gives the invalid-format error whatever the category; otherwise
\* a category outside {book, movie, tv, anime, game} gives the unknown-category
\* error; otherwise a host outside the allow-list of the category gives the
\* host-mismatch error; no failing call returns an identifier and the
\* extraction-failed error never occurs.
C11_ErrorOrder ==
    parsed # NotCalled =>
        /\ parsed.err # ErrExtractID
        /\ parsed.err # NoErr => parsed.id = <<>>
        /\ parsed.err =
             IF C11_HostsOfMatch(externalURL) = {} THEN ErrInvalidFormat
             ELSE IF subjectType \notin C11_Categories THEN ErrUnknownType
             ELSE IF C1_HostOf(subjectType) \notin C11_HostsOfMatch(externalURL)
                  THEN ErrInvalidHost
             ELSE NoErr

\* an http URL parsed for an unknown category: the format decides
C11_Witness ==
    /\ externalURL = MkUrl(sHttp, sBook \o sDouban, sSubject, <<"7">>, <<>>)
    /\ subjectType = "music"
    /\ parsed = [id |-> <<>>, err |-> ErrInvalidFormat]

\* a URL of the pattern parsed for an unknown category
C11_WitnessCategory ==
    /\ externalURL = MkUrl(sHttps, sBook \o sDouban, sSubject, <<"7">>, <<>>)
    /\ subjectType = "music"
    /\ parsed = [id |-> <<>>, err |-> ErrUnknownType]

----------------------------------------------------------------------------
(* C12 *)

\* the request has a link that ParseDoubanURL refuses
C12_ParseFailed(q) ==
    /\ q.pc # "idle"
    /\ q.doubanURL # <<>>
    /\ ParseDoubanURL(q.doubanURL, q.subjectType).err # NoErr

\* FetchDoubanMediaInfo has returned an error to the request
C12_FetchFailed(m) == m.pc = "ret" /\ m.ret.err # Nil

C12_NoCall(t) ==
    \A i \in 1..Len(t) : t[i] \notin {"fetchRating", "downloadImage"}

\* where a request stands that ParseDoubanURL or FetchDoubanMediaInfo has
\* failed: at the error redirect or on its way to it, with no call of
\* fetchRating or downloadImage
C12_ErrorRedirect ==
    /\ C12_ParseFailed(req[Solo]) =>
          /\ req[Solo].pc = "done"
          /\ req[Solo].resp = RespBadURL
          /\ req[Solo].trace = <<"ParseDoubanURL">>
          /\ mi[Solo] = MiIdle
    /\ C12_FetchFailed(mi[Solo]) =>
          /\ \/ req[Solo].pc = "fetch"
             \/ req[Solo].pc = "done" /\ req[Solo].resp = RespFetchFail
          /\ req[Solo].trace = <<"ParseDoubanURL", "FetchDoubanMediaInfo">>
    /\ (C12_ParseFailed(req[Solo]) \/ C12_FetchFailed(mi[Solo])) =>
          /\ C12_NoCall(req[Solo].trace)
          /\ fr[Solo] = FrIdle
          /\ dl[Solo] = DlIdle

\* the steps of a request up to the return of FetchDoubanMediaInfo, and the
\* step to the error redirect, leave the table and the image directory alone
C12_NothingWritten ==
    ( \/ req'[Solo].pc = "fetch"
      \/ C12_ParseFailed(req'[Solo])
      \/ C12_FetchFailed(mi'[Solo]) )
    => UNCHANGED <<db, links, inodes>>

\* C12: when ParseDoubanURL or FetchDoubanMediaInfo returns an error the
\* request ends with the error redirect and nothing else happens: no record is
\* created or modified, no file is written, and neither fetchRating nor
\* downloadImage is called.
C12_ErrorsChangeNothing == [](C12_ErrorRedirect) /\ [][C12_NothingWritten]_vars

\* a stored item is added again with another watch date, the metadata request
\* fails, and the row keeps its watch date and its link
C12_Witness ==
    /\ req[Solo].pc = "done"
    /\ req[Solo].resp = RespFetchFail
    /\ db # <<>>
    /\ db[1].DoubanID = req[Solo].subjectID
    /\ db[1].WatchedAt # req[Solo].watchedAt
    /\ db[1].DoubanURL # req[Solo].doubanURL
    /\ links # NoFiles

\* a request with a link that is no subject link, after an item was stored
C12_WitnessParse ==
    /\ req[Solo].pc = "done"
    /\ req[Solo].resp = RespBadURL
    /\ db # <<>>

----------------------------------------------------------------------------
(* C13 *)

\* downloadImage has returned to a request that adds a new item with a remote
\* image URL
C13_Downloaded(r) ==
    /\ req[r].lookup = "not found"
    /\ req[r].mediaInfo.ImageURL # <<>>
    /\ req[r].pc \in {"create", "done"}
    /\ dl[r].pc = "ret"

\* the local references /images/<file> of the files stored for the identifier
C13_LocalReferences(id) ==
    {sImages \o path[1] \o path[2] : path \in {x \in DOMAIN links : x[1] = id}}

C13_ReferenceOK(r, ref) ==
    IF dl[r].ret.err # Nil
    THEN ref = req[r].mediaInfo.ImageURL
    ELSE ref \in C13_LocalReferences(req[r].subjectID)

\* C13: when a new item has a remote image URL and downloadImage fails, the
\* record is still created with that remote URL as its image reference and the
\* request reports success, unless the store refuses the insert; when the
\* download succeeds the image reference is the local path /images/<file>.
C13_FallbackToRemote ==
    \A r \in Reqs :
        C13_Downloaded(r) =>
            /\ C13_ReferenceOK(r, req[r].localImageURL)
            /\ req[r].pc = "done" =>
                  /\ req[r].resp \in {RespAdded, RespSaveFail}
                  /\ req[r].resp = RespAdded =>
                        /\ RowOf(db, req[r].subjectID) # 0
                        /\ C13_ReferenceOK(r, db[RowOf(db, req[r].subjectID)].ImageURL)

\* the download failed on every attempt and the item was added with the
\* remote URL as its image reference
C13_Witness ==
    /\ C13_Downloaded(Solo)
    /\ dl[Solo].ret.err # Nil
    /\ Len(dl[Solo].log) = DlMaxRetries
    /\ req[Solo].resp = RespAdded
    /\ db[1].ImageURL = sCover
    /\ links = NoFiles

\* the download succeeded and the item was added with the local reference
C13_WitnessLocal ==
    /\ C13_Downloaded(Solo)
    /\ dl[Solo].ret.err = Nil
    /\ req[Solo].resp = RespAdded
    /\ db[1].ImageURL = sImages \o <<"4">> \o <<".", "p", "n", "g">>

----------------------------------------------------------------------------
(* C14 *)

\* the answers with a status line whose body arrived whole
C14_Answered(o) == o.kind = "response" /\ o.cut = Whole

\* attempt i of requestAPI was taken as the success of the call
C14_ApiAccepted(a, i) ==
    i = Len(a.log) /\ a.pc = "ret" /\ a.ret = [body |-> a.log[i].body, err |-> Nil]

\* attempt i of downloadImage passed the test of the status: no attempt
\* follows it and the call goes on to the file
C14_DlAccepted(d, i) ==
    /\ i = Len(d.log)
    /\ d.pc # "loop"
    /\ d.pc = "ret" => d.ret.err \in {Nil, ErrCreate, ErrSave}

\* the statement for the answers whose status is in `passing`: in requestAPI,
\* downloadImage and fetchRating an answer passes exactly when its status is
\* in the set
C14_StatusRule(passing) ==
    /\ \A i \in 1..Len(api[Solo].log) :
          C14_Answered(api[Solo].log[i]) =>
              (C14_ApiAccepted(api[Solo], i) <=> api[Solo].log[i].status \in passing)
    /\ \A i \in 1..Len(dl[Solo].log) :
          C14_Answered(dl[Solo].log[i]) =>
              (C14_DlAccepted(dl[Solo], i) <=> dl[Solo].log[i].status \in passing)
    /\ \A i \in 1..Len(fr[Solo].log) :
          (fr[Solo].pc = "ret" /\ C14_Answered(fr[Solo].log[i])) =>
              fr[Solo].ret = IF fr[Solo].log[i].status \in passing
                             THEN extractRatingFromHTML(fr[Solo].log[i].body)
                             ELSE 0

\* C14 as stated: an attempt fails on its status exactly when the status is
\* outside 200..299; every answer with a status from 200 to 299 whose body can
\* be read is accepted.
C14_FailsExactlyOutside2xx == C14_StatusRule(200..299)

\* C14, with the test the three functions make: an attempt fails on its status
\* exactly when the status is not 200, so 204 fails like 404; every answer
\* with status 200 whose body can be read is accepted.
C14_FailsExactlyUnless200 == C14_StatusRule({StatusOK})

\* requestAPI was answered 204 on the first attempt, tried again and returned
\* the body of the second answer
C14_Witness ==
    /\ Len(api[Solo].log) = ApiMaxRetries
    /\ C14_Answered(api[Solo].log[1])
    /\ api[Solo].log[1].status = 204
    /\ C14_ApiAccepted(api[Solo], ApiMaxRetries)

\* fetchRating was answered 204 with a page that shows a rating and returned 0
C14_WitnessRating ==
    /\ fr[Solo].pc = "ret"
    /\ fr[Solo].ret = 0
    /\ fr[Solo].log # <<>>
    /\ C14_Answered(fr[Solo].log[1])
    /\ fr[Solo].log[1].status = 204
    /\ extractRatingFromHTML(fr[Solo].log[1].body) = 97

----------------------------------------------------------------------------
(* C15 *)

\* a call of downloadImage with the empty URL is never in the loop: it has
\* returned the empty-source error with no attempt, no sleep and no file open
C15_ReturnsAtOnce ==
    \A r \in Reqs :
        (dl[r].pc # "idle" /\ dl[r].imageURL = <<>>) =>
            /\ dl[r].pc = "ret"
            /\ dl[r].ret = [path |-> NoPath, err |-> ErrEmptyURL]
            /\ dl[r].log = <<>>
            /\ dl[r].attempt = 0
            /\ dl[r].sleeps = 0
            /\ dl[r].out = 0

\* the step of such a call leaves every name and every file as it was
C15_TouchesNoFile ==
    \A r \in Reqs :
        (dl'[r] # dl[r] /\ dl'[r].imageURL = <<>>) => UNCHANGED <<links, inodes>>

\* C15: downloadImage called with an empty remote image URL returns the
\* empty-source error immediately: no HTTP attempt is made, no delay occurs and
\* no file is created, truncated or removed.
C15_EmptySource == [](C15_ReturnsAtOnce) /\ [][C15_TouchesNoFile]_vars

\* the call with the empty URL has returned while a picture of an earlier
\* call is stored for the identifier
C15_Witness ==
    /\ dl[Solo].pc = "ret"
    /\ dl[Solo].imageURL = <<>>
    /\ dl[Solo].ret.err = ErrEmptyURL
    /\ \E p \in DOMAIN links : p[1] = dl[Solo].subjectID /\ inodes[links[p]] = sImgA

----------------------------------------------------------------------------
(* C16 *)

C16_RowsOf(id) == {i \in 1..Len(db) : db[i].DoubanID = id}

\* the requests for identifier id that ended with the message of success of
\* the create branch
C16_Added(id) ==
    {r \in Reqs : req[r].pc = "done" /\ req[r].resp = RespAdded /\ req[r].subjectID = id}

\* C16: with the unique index on DoubanID, under every interleaving of two add
\* requests, also when both have passed the query for a stored record, the
\* table holds at most one row for each DoubanID, and only the request whose
\* insert was taken reports success: the other one ends with the save-failed
\* error.
C16_OneRowPerDoubanID ==
    /\ \A i, j \in 1..Len(db) : db[i].DoubanID = db[j].DoubanID => i = j
    /\ \A r \in Reqs :
          (req[r].pc = "done" /\ req[r].lookup = "not found") =>
              /\ req[r].resp \in {RespAdded, RespSaveFail}
              /\ Cardinality(C16_Added(req[r].subjectID))
                    = Cardinality(C16_RowsOf(req[r].subjectID))

\* both requests found no record for the identifier; the insert of one was
\* taken, the other one ended with the save-failed error
C16_Witness ==
    /\ \A r \in Reqs : req[r].pc = "done" /\ req[r].lookup = "not found"
    /\ \A r \in Reqs : req[r].subjectID = <<"4">>
    /\ \E r \in Reqs : req[r].resp = RespAdded
    /\ \E r \in Reqs : req[r].resp = RespSaveFail
    /\ Len(db) = 1

----------------------------------------------------------------------------
(* C17 *)

\* the columns that keep the value they got when the record was created
C17_Fixed(row) ==
    [ID |-> row.ID, DoubanID |-> row.DoubanID, Title |-> row.Title,
     AltTitle |-> row.AltTitle, Director |-> row.Director, PubDate |-> row.PubDate,
     Rating |-> row.Rating, Year |-> row.Year, Summary |-> row.Summary,
     CreatedAt |-> row.CreatedAt, IsFavorite |-> row.IsFavorite]

\* one step of an add request seen from a stored row
C17_RowStep(i) ==
    /\ i <= Len(db')
    /\ C17_Fixed(db'[i]) = C17_Fixed(db[i])
    /\ db'[i] # db[i] =>
          /\ req'[Solo].subjectID = db[i].DoubanID
          /\ req'[Solo].resp = RespUpdated
          /\ db'[i].WatchedAt = req'[Solo].watchedAt
          /\ db'[i].DoubanURL = req'[Solo].doubanURL
    /\ db'[i].ImageURL # db[i].ImageURL =>
          /\ ~HasPrefix(db[i].ImageURL, sImages)
          /\ req'[Solo].mediaInfo.ImageURL # <<>>
          /\ dl[Solo].pc = "ret"
          /\ dl[Solo].ret.err = Nil
          /\ db'[i].ImageURL = sImages \o dl[Solo].ret.path[1] \o dl[Solo].ret.path[2]

\* C17: through any sequence of add requests the Title, AltTitle, Director,
\* PubDate, Rating, Year, Summary, CreatedAt and IsFavorite of a stored record
\* stay what they were when it was created: adding a stored identifier again
\* changes only WatchedAt and DoubanURL, and ImageURL only when the stored
\* reference is not a local /images/ path, the remote image URL is not empty
\* and the download succeeds.
C17_CreatedOnce == [][\A i \in 1..Len(db) : C17_RowStep(i)]_vars

\* an item stored with the rating 9.4 and a remote picture has been added
\* again with a watch date, an answer without a rating and a download that
\* succeeded: the row keeps its rating and now names the local picture
C17_Witness ==
    /\ req[Solo].pc = "done"
    /\ req[Solo].resp = RespUpdated
    /\ req[Solo].mediaInfo.Rating = 0
    /\ db # <<>>
    /\ db[1].Rating = 94
    /\ db[1].WatchedAt = req[Solo].watchedAt
    /\ db[1].WatchedAt # db[1].CreatedAt
    /\ db[1].ImageURL = sImages \o <<"4">> \o <<".", "p", "n", "g">>
    /\ req[Solo].trace = <<"ParseDoubanURL", "FetchDoubanMediaInfo", "downloadImage",
                           "downloadImage returned">>

----------------------------------------------------------------------------
(* C18 *)

\* the field of the record that belongs to each key of the object
C18_FieldOf ==
    [number |-> "Number", title |-> "Title", poster |-> "Poster", thumb |-> "Thumb",
     actor |-> "Actor", release |-> "Release", year |-> "Year", tag |-> "Tag",
     mosaic |-> "Mosaic", runtime |-> "Runtime", studio |-> "Studio",
     publisher |-> "Publisher", director |-> "Director", series |-> "Series",
     website |-> "Website"]

\* the output is the object with members m between the markers
C18_Emits(m) ==
    \E pre \in {<<>>, sNoise}, ws \in {<<>>, sNl}, post \in {<<>>, sNoise, sNl} :
        jav.output = Framed(pre, ws, <<JsonText(JObject(m))>>, post)

\* C18: for the JSON object the subprocess emits between the markers, each of
\* the fifteen fields number, title, poster, thumb, actor, release, year, tag,
\* mosaic, runtime, studio, publisher, director, series, website of the
\* returned record is the JSON value when that value is a string, and the
\* empty string when the key is absent or the value is a number, a boolean,
\* null, an array or an object.
C18_FieldsAreStringsOrEmpty ==
    \A m \in JavMaps :
        (jav.pc = "ret" /\ ~jav.failed /\ C18_Emits(m)) =>
            /\ jav.ret.kind = "record"
            /\ DOMAIN jav.ret.movie = {C18_FieldOf[k] : k \in JavKeys}
            /\ \A k \in JavKeys :
                  jav.ret.movie[C18_FieldOf[k]] =
                      IF k \in DOMAIN m /\ m[k].t = "string" THEN m[k].s ELSE <<>>

\* the object has a number under "title" and no other member but strings: the
\* record has the empty title and the other fourteen values
C18_Witness ==
    /\ jav.pc = "ret"
    /\ C18_Emits(JavWith("title", Member(JNumber(1))))
    /\ jav.ret.kind = "record"
    /\ jav.ret.movie.Title = <<>>
    /\ jav.ret.movie.Number = <<"number">>
    /\ jav.ret.movie.Website = <<"website">>

----------------------------------------------------------------------------
(* C19 *)

\* C19: every rating that addMovieHandler stores, taken from the API answer or
\* read from the page, lies on the scale from 0 to 10 (0 to 100 in tenths).
C19_RatingInScale ==
    \A i \in 1..Len(db) : db[i].Rating \in 0..100

\* the API answer had no rating, the page shows the number 12 in the place of
\* the rating, and the record is stored with the rating 12
C19_StoredOffScale ==
    /\ req[Solo].pc = "done"
    /\ req[Solo].resp = RespAdded
    /\ req[Solo].mediaInfo.Rating = 0
    /\ db[Len(db)].Rating = 120

----------------------------------------------------------------------------
(* C20 *)

\* the second of the segments of text that the delimiter sep separates, the
\* empty string when sep does not occur
C20_Second(text, sep) ==
    LET i == Index(text, sep)
    IN IF i = 0 THEN <<>>
       ELSE LET after == Drop(text, i + Len(sep) - 1)
                j == Index(after, sep)
            IN IF j = 0 THEN after ELSE Sub(after, 1, j - 1)

\* FetchDoubanMediaInfo has returned the record of a movie, tv or anime item
C20_MovieReturned(r) ==
    mi[r].pc = "ret" /\ mi[r].ret.err = Nil /\ mi[r].st \notin {"book", "game"}

\* the subtitle enters the record through Press alone
C20_OnlyPress(o, info) ==
    \A cs \in CardSubtitles :
        LET other == ProjectMovie(UnmarshalMovie([o EXCEPT !.card_subtitle = cs]))
        IN [other EXCEPT !.Press = info.Press] = info

\* the statement for the delimiter sep
C20_PressRule(sep) ==
    \A r \in Reqs :
        C20_MovieReturned(r) =>
            LET o == api[r].ret.body.obj
            IN /\ mi[r].ret.info.Press = C20_Second(Field(o.card_subtitle), sep)
               /\ C20_OnlyPress(o, mi[r].ret.info)

\* C20 as stated: Press is the second segment of card_subtitle split on "/"
\* when there are two segments or more, and the empty string otherwise; the
\* first segment is in no field of the record.
C20_PressIsSecondSlashSegment == C20_PressRule(sSlash)

\* C20, with the delimiter the projection splits on: Press is the second
\* segment of card_subtitle split on " / " (space, slash, space) when there are
\* two segments or more, and the empty string otherwise, also for a subtitle
\* with a "/" that has no spaces around it; the subtitle is used for no other
\* field, so the first segment is not in the record.
C20_PressIsSecondSpacedSegment == C20_PressRule(sCardSep)

\* a tv item with the subtitle "a / b / X": Press is "b"
C20_Witness ==
    /\ C20_MovieReturned(Solo)
    /\ mi[Solo].st = "tv"
    /\ api[Solo].ret.body.obj.card_subtitle = Member(sA \o sCardSep \o sB \o sCardSep \o sX)
    /\ mi[Solo].ret.info.Press = sB

\* a movie with the subtitle "a/b": there is one part, and Press is empty
C20_WitnessUnspaced ==
    /\ C20_MovieReturned(Solo)
    /\ api[Solo].ret.body.obj.card_subtitle = Member(sA \o sSlash \o sB)
    /\ mi[Solo].ret.info.Press = <<>>

----------------------------------------------------------------------------
(* C21 *)

\* the URLs whose path is /subject/<digits> with or without a trailing slash
C21_SubjectUrls ==
    {MkUrl(sHttps, h, sSubject, id, t) :
        h \in UrlHosts, id \in {x \in UrlIds : x # <<>> /\ \A i \in 1..Len(x) : x[i] \in Digits},
        t \in {<<>>, sSlash}}

\* C21: for the categories book, movie, tv and anime ParseDoubanURL returns an
\* identifier only for a URL whose path is /subject/<digits>, with or without
\* a trailing slash; a URL with a /game/ path is rejected for them.
C21_GamePathOnlyForGame ==
    ( /\ parsed # NotCalled
      /\ subjectType \in {"book", "movie", "tv", "anime"}
      /\ parsed.err = NoErr )
    => externalURL \in C21_SubjectUrls

\* the movie category, a /game/ path on the movie host: the identifier is
\* returned with no error
C21_GamePathAccepted ==
    /\ externalURL = MkUrl(sHttps, sMovie \o sDouban, sGame, <<"7">>, sSlash)
    /\ subjectType = "movie"
    /\ parsed = [id |-> <<"7">>, err |-> NoErr]

----------------------------------------------------------------------------
(* C22 *)

\* the places <<g, k>> of the result at which the movie stands
C22_PlacesOf(groups, movie) ==
    {p \in {<<g, k>> : g \in 1..Len(groups), k \in 1..MaxMovies + 1} :
        /\ p[2] <= Len(groups[p[1]].Movies)
        /\ groups[p[1]].Movies[p[2]] = movie}

\* (year, month) of group g comes after that of group h in time
C22_Later(g, h) ==
    \/ DecimalValue(g.Year) > DecimalValue(h.Year)
    \/ DecimalValue(g.Year) = DecimalValue(h.Year) /\ DecimalValue(g.Month) > DecimalValue(h.Month)

\* C22: groupMoviesByYearMonth partitions its input by watch year and month:
\* every input movie stands at exactly one place of the result, in the group
\* whose Year and Month are the year and the month of its WatchedAt; no group
\* is empty and every member of a group is an input movie; the groups are in
\* strictly descending (year, month) order; within a group the movies keep the
\* order they have in the input.
C22_PartitionByYearMonth ==
    view.pc = "ret" =>
        LET movies == view.movies
            groups == view.groups
        IN /\ \A i \in 1..Len(movies) :
                /\ Cardinality(C22_PlacesOf(groups, movies[i])) = 1
                /\ \A p \in C22_PlacesOf(groups, movies[i]) :
                      /\ DecimalValue(groups[p[1]].Year) = YearOf(movies[i].WatchedAt)
                      /\ DecimalValue(groups[p[1]].Month) = MonthOf(movies[i].WatchedAt)
           /\ \A g \in 1..Len(groups) :
                /\ Len(groups[g].Movies) >= 1
                /\ \A k \in 1..Len(groups[g].Movies) :
                      \E i \in 1..Len(movies) : groups[g].Movies[k] = movies[i]
                /\ \A k, l \in 1..Len(groups[g].Movies) :
                      k < l => groups[g].Movies[k].ID < groups[g].Movies[l].ID
           /\ \A g, h \in 1..Len(groups) : g < h => C22_Later(groups[g], groups[h])

\* three movies, the first and the third watched in October 999, the second in
\* February 2024: the later month comes first, and the two of October 999
\* stand in their group in the order of the input
C22_Witness ==
    /\ view.pc = "ret"
    /\ Len(view.movies) = 3
    /\ YearOf(view.movies[1].WatchedAt) = 999 /\ MonthOf(view.movies[1].WatchedAt) = 10
    /\ YearOf(view.movies[2].WatchedAt) = 2024 /\ MonthOf(view.movies[2].WatchedAt) = 2
    /\ YearOf(view.movies[3].WatchedAt) = 999 /\ MonthOf(view.movies[3].WatchedAt) = 10
    /\ Len(view.groups) = 2
    /\ view.groups[1].Year = <<"2", "0", "2", "4">> /\ view.groups[1].Month = <<"0", "2">>
    /\ view.groups[2].Year = <<"0", "9", "9", "9">> /\ view.groups[2].Month = <<"1", "0">>
    /\ view.groups[2].Movies = <<view.movies[1], view.movies[3]>>

----------------------------------------------------------------------------
(* C23 *)

\* the rows of the table whose primary key the text of the id names
C23_RowsOf(table, id) ==
    {i \in 1..Len(table) : IsNumber(id) /\ table[i].ID = DecimalValue(id)}

\* the table with the IsFavorite of row i flipped and nothing else changed
C23_Flipped(table, i) ==
    [j \in 1..Len(table) |->
        IF j = i THEN [table[j] EXCEPT !.IsFavorite = ~table[j].IsFavorite] ELSE table[j]]

\* one request served by toggleMovieFavoriteHandler
C23_Request ==
    LET rows == C23_RowsOf(db, view'.id)
    IN IF view'.method = "POST" /\ rows # {}
       THEN \A i \in rows :
               view'.saved =>
                  /\ db' = C23_Flipped(db, i)
                  /\ ( /\ view.method = "POST" /\ view.id = view'.id
                       /\ view.saved /\ view.found = db[i].ID )
                     => db' = view.before
       ELSE db' = db

\* C23: a POST for an existing movie id, when the store accepts the write,
\* flips the IsFavorite of that record and changes no other field and no other
\* record; the second of two consecutive toggles of one id restores the table
\* as it was before the first; a request with a missing or unknown id, or with
\* a method other than POST, changes nothing.
C23_ToggleFlipsOneRecord == [][C23_Request]_vars

\* the id 1=1, which is the id of no record, has been taken for a condition:
\* the first record of the table has been found and its IsFavorite flipped
C23_ConditionToggles ==
    /\ view.pc = "toggle"
    /\ view.method = "POST"
    /\ view.id = sAlways
    /\ view.found # 0
    /\ view.saved
    /\ db # view.before

----------------------------------------------------------------------------
(* C24 *)

\* the numbers of attempts the claim allows an invocation
C24_WithinBounds ==
    /\ Len(api[Solo].log) <= 2
    /\ Len(fr[Solo].log) <= 1
    /\ Len(dl[Solo].log) <= 3

C24_Running == req[Solo].pc \notin {"idle", "done"}

C24_Responded == req[Solo].pc = "done" /\ req[Solo].resp # ""

\* C24: every invocation of addMovieHandler ends with a response, whatever the
\* network answers (success, failure or timeout, each one attempt), and makes
\* at most 2 requests for the metadata, at most 1 request for the page with
\* the rating and at most 3 requests for the image.
C24_TerminatesWithinBounds ==
    /\ [](C24_WithinBounds)
    /\ C24_Running ~> C24_Responded

\* an invocation that used every attempt it has: the metadata came with the
\* second request, the page with the rating was requested once, the image
\* failed three times, and the response is the success redirect
C24_Witness ==
    /\ C24_Responded
    /\ req[Solo].resp = RespAdded
    /\ Len(api[Solo].log) = 2
    /\ Len(fr[Solo].log) = 1
    /\ Len(dl[Solo].log) = 3
    /\ dl[Solo].ret.err # Nil

----------------------------------------------------------------------------
(* C25 *)

\* the contents that are the complete body of one response
C25_Bodies == DlBodies \cup {RaceOld}

\* call r has returned success, and at the path it returned there is no file
\* or a file that is not the complete body of one response
C25_Broken(r) ==
    /\ dl[r].pc = "ret"
    /\ dl[r].ret.err = Nil
    /\ \/ dl[r].ret.path \notin DOMAIN links
       \/ inodes[links[dl[r].ret.path]] \notin C25_Bodies

\* call s has opened the file at the path
C25_Opened(s, path) ==
    /\ dl[s].localPath = path
    /\ \/ dl[s].pc \in {"copy", "remove"}
       \/ dl[s].pc = "ret" /\ dl[s].ret.err \in {Nil, ErrSave}

\* C25: downloadImage provides no mutual exclusion per identifier.  With two
\* calls for one subjectID and one content type running at the same time, the
\* file of a call that has returned success is missing or is not the complete
\* body of a single response only when the other call has opened the same
\* path (its create truncated the file, its copy wrote into it or its cleanup
\* removed it); the states C25_Witness and C25_WitnessTorn show that this
\* happens.
C25_BrokenOnlyByTheOtherCall ==
    \A r \in Reqs :
        C25_Broken(r) => \E s \in Reqs \ {r} : C25_Opened(s, dl[r].ret.path)

\* call 1 has returned success with the path, and the cleanup of call 2, whose
\* copy broke off, has removed the file: no file exists at the path
C25_Witness ==
    /\ dl[1].pc = "ret" /\ dl[1].ret.err = Nil
    /\ dl[2].pc = "ret" /\ dl[2].ret.err = ErrSave
    /\ dl[1].ret.path = dl[2].localPath
    /\ dl[1].ret.path \notin DOMAIN links

\* both calls have returned success with the same path, and the file holds the
\* one byte of the shorter body followed by the rest of the longer one
C25_WitnessTorn ==
    /\ dl[1].pc = "ret" /\ dl[1].ret.err = Nil
    /\ dl[2].pc = "ret" /\ dl[2].ret.err = Nil
    /\ dl[1].ret.path = dl[2].ret.path
    /\ dl[1].ret.path \in DOMAIN links
    /\ inodes[links[dl[1].ret.path]] = sImgB \o Drop(sImgA, Len(sImgB))

----------------------------------------------------------------------------
(* C26 *)

\* C26: for every game response whose primary title is not empty, the title
\* that FetchDoubanMediaInfo returns is not empty, also when the localized
\* title (cn_name) is absent or empty.
C26_GameTitleNotEmpty ==
    \A r \in Reqs :
        ( /\ mi[r].pc = "ret" /\ mi[r].st = "game" /\ mi[r].ret.err = Nil
          /\ C8_Text(api[r].ret.body.obj.title) # <<>> )
        => mi[r].ret.info.Title # <<>>

\* a game response with the primary title X and no cn_name: the returned title
\* is empty and the primary title is returned as the alternate title
C26_EmptyTitle ==
    /\ mi[Solo].pc = "ret" /\ mi[Solo].st = "game" /\ mi[Solo].ret.err = Nil
    /\ api[Solo].ret.body.obj.title = Member(sX)
    /\ api[Solo].ret.body.obj.cn_name = Absent
    /\ mi[Solo].ret.info.Title = <<>>
    /\ mi[Solo].ret.info.AltTitle = sX

----------------------------------------------------------------------------
(* C27 *)

\* the texts around the marker pair
C27_Outside == {<<>>, sNoise, sNl, sEndMarker}

\* C27: for every output of the subprocess fetchJavInfoFromPython returns a
\* record or an error and never aborts; it returns an error when a marker is
\* missing and when the first end marker comes before the start marker; and
\* the text outside the marker pair does not affect the record: an object
\* between the markers gives the same record whatever stands around them.
C27_NeverAborts ==
    (jav.pc = "ret" /\ ~jav.failed) =>
        /\ jav.ret.kind \in {"record", "error"}
        /\ ( \/ Index(jav.output, sStartMarker) = 0
             \/ Index(jav.output, sEndMarker) = 0
             \/ Index(jav.output, sEndMarker) < Index(jav.output, sStartMarker) )
           => jav.ret.kind = "error"
        /\ \A pre \in C27_Outside, post \in C27_Outside, ws \in {<<>>, sNl} :
              jav.output = Framed(pre, ws, <<JsonText(JObject(JavFull))>>, post)
              => jav.ret = JavReturn(JavMovieOf(JavFull))

\* the output has an end marker in front of the framed JSON object: the slice
\* expression outputStr[startIdx+len(startMarker):endIdx] has its bounds out of
\* order and the call does not return
C27_Aborts ==
    /\ jav.pc = "ret"
    /\ ~jav.failed
    /\ jav.output = sEndMarker \o Framed(sNoise, sNl, <<JsonText(JObject(JavFull))>>, sNl)
    /\ jav.ret = JavPanic

----------------------------------------------------------------------------
(* C28 *)

\* the number of star glyphs of a formatted rating
C28_Stars(text) == Cardinality({i \in 1..Len(text) : text[i] \in {sStarFull, sStarEmpty}})

\* C28: for every rating that addMovieHandler has stored, formatRating returns
\* normally: the no-rating text for 0, and otherwise a text of exactly five
\* star glyphs (full, half and empty together) followed by the number; the
\* count of empty stars is never negative.
C28_FormatsEveryStoredRating ==
    view.pc = "index" =>
        \A i \in 1..Len(view.movies) :
            LET s == view.stars[i]
                rating == view.movies[i].Rating
            IN /\ s.kind = "text"
               /\ IF rating = 0 THEN s.text = sNoRatingText
                  ELSE /\ C28_Stars(s.text) = 5
                       /\ \A k \in 1..5 : s.text[k] \in {sStarFull, sStarEmpty}
                       /\ SubSeq(s.text, 6, Len(s.text)) = SprintRating(rating)
               /\ EmptyStars(Trunc(rating, 20), rating - 20 * Trunc(rating, 20) >= 10) >= 0

\* the movie was stored with the rating 12 read from the page, and the page
\* with the list is requested: formatRating computes 6 full stars and -1 empty
\* stars and panics in strings.Repeat
C28_FormatPanics ==
    /\ view.pc = "index"
    /\ view.method = "GET"
    /\ Len(view.movies) = 1
    /\ view.movies[1].Rating = 120
    /\ view.stars[1] = FormatPanic
    /\ view.resp = RespPageBroken

----------------------------------------------------------------------------
(* C29 *)

\* C29: the retry delay occurs only between consecutive attempts: a call of
\* requestAPI, and likewise a call of downloadImage, whose attempts all fail
\* has made one delay fewer than attempts when it returns its error, none of
\* them after the last failed attempt.
C29_DelaysOnlyBetweenAttempts ==
    \A r \in Reqs :
        /\ ( /\ api[r].pc = "ret"
             /\ api[r].log # <<>>
             /\ \A k \in 1..Len(api[r].log) : C3_Failed(api[r].log[k]) )
           => api[r].sleeps = Len(api[r].log) - 1
        /\ ( /\ dl[r].pc = "ret"
             /\ dl[r].ret.err # Nil
             /\ dl[r].attempt >= 1 )
           => dl[r].sleeps = dl[r].attempt - 1

\* requestAPI has returned the exhaustion error after two failed attempts and
\* two delays: the second delay came after the last attempt
C29_DelayAfterLastAttempt ==
    /\ api[Solo].pc = "ret"
    /\ api[Solo].ret.err # Nil
    /\ Len(api[Solo].log) = 2
    /\ api[Solo].sleeps = 2

----------------------------------------------------------------------------
(* C30 *)

\* the request ends in this step with one of the two success redirects
C30_Succeeds ==
    /\ req[Solo].pc # "done"
    /\ req'[Solo].pc = "done"
    /\ req'[Solo].resp \in {RespAdded, RespUpdated}

\* the step of a request that succeeds for an item of another category than
\* the stored record i, which has the same subject id
C30_KeptApart(i) ==
    ( /\ C30_Succeeds
      /\ db[i].DoubanID = req'[Solo].subjectID
      /\ GuessType(db[i].DoubanURL) # req'[Solo].subjectType )
    => /\ Len(db') > Len(db)
       /\ db'[i].WatchedAt = db[i].WatchedAt
       /\ db'[i].DoubanURL = db[i].DoubanURL
       /\ db'[i].ImageURL = db[i].ImageURL
       /\ \E j \in 1..Len(db') :
             /\ j # i
             /\ db'[j].DoubanID = req'[Solo].subjectID
             /\ db'[j].DoubanURL = req'[Solo].doubanURL

\* C30: items of different categories that share a numeric identifier are kept
\* apart: once a book with subject id N is stored, a successful request for a
\* movie (or game) URL with the subject id N creates a separate record and
\* leaves WatchedAt, DoubanURL and ImageURL of the stored book record as they
\* were; and the other way round.
C30_CategoriesKeptApart == [][\A i \in 1..Len(db) : C30_KeptApart(i)]_vars

====
